---- MODULE Spec2Model ----
(***************************************************************************)
(* Model of webswags: the discovery pipeline of discovery/discovery.go     *)
(* (tree walk, dual-schema parse, info projection, service-name            *)
(* derivation, sort).                                                      *)
(*                                                                         *)
(* A Go string is a sequence of one-character strings: <<"a","p","i">> is  *)
(* "api" and <<>> is "".                                                   *)
(***************************************************************************)
EXTENDS Integers, Sequences, FiniteSets, TLC

----------------------------------------------------------------------------
(* Bytes and strings.                                                      *)

\* The characters of the model, in ascending byte order (ASCII).
AsciiOrder ==
  <<"\t", " ", "-", ".", "/", "0", "1", "2", "3", "?",
    "A", "B", "C", "D", "E", "F", "G", "H", "I", "J", "K", "L", "M",
    "N", "O", "P", "Q", "R", "S", "T", "U", "V", "W", "X", "Y", "Z",
    "_",
    "a", "b", "c", "d", "e", "f", "g", "h", "i", "j", "k", "l", "m",
    "n", "o", "p", "q", "r", "s", "t", "u", "v", "w", "x", "y", "z">>

Uppers == SubSeq(AsciiOrder, 11, 36)

Lowers == SubSeq(AsciiOrder, 38, 63)

\* Position of a character in byte order.
Code(c) == CHOOSE i \in 1..Len(AsciiOrder) : AsciiOrder[i] = c

IsUpper(c) == \E i \in 1..26 : Uppers[i] = c

IsLower(c) == \E i \in 1..26 : Lowers[i] = c

LowerOf(c) == IF IsUpper(c) THEN Lowers[CHOOSE i \in 1..26 : Uppers[i] = c] ELSE c

UpperOf(c) == IF IsLower(c) THEN Uppers[CHOOSE i \in 1..26 : Lowers[i] = c] ELSE c

\* unicode.IsSpace on the characters of the model.
IsSpace(c) == c \in {" ", "\t"}

\* Go's < on strings: byte-wise lexicographic, a proper prefix is smaller.
RECURSIVE StrLess(_, _)
StrLess(a, b) ==
  IF b = <<>> THEN FALSE
  ELSE IF a = <<>> THEN TRUE
  ELSE IF a[1] # b[1] THEN Code(a[1]) < Code(b[1])
  ELSE StrLess(Tail(a), Tail(b))

ToLower(s) == [i \in 1..Len(s) |-> LowerOf(s[i])]

RECURSIVE TrimLeftSpace(_)
TrimLeftSpace(s) ==
  IF s # <<>> /\ IsSpace(s[1]) THEN TrimLeftSpace(Tail(s)) ELSE s

RECURSIVE TrimRightSpace(_)
TrimRightSpace(s) ==
  IF s # <<>> /\ IsSpace(s[Len(s)])
  THEN TrimRightSpace(SubSeq(s, 1, Len(s) - 1)) ELSE s

TrimSpace(s) == TrimRightSpace(TrimLeftSpace(s))

HasSuffix(s, suf) ==
  /\ Len(suf) <= Len(s)
  /\ SubSeq(s, Len(s) - Len(suf) + 1, Len(s)) = suf

TrimSuffix(s, suf) ==
  IF HasSuffix(s, suf) THEN SubSeq(s, 1, Len(s) - Len(suf)) ELSE s

\* strings.ReplaceAll for a one-character pattern and replacement.
ReplaceAll(s, old, new) == [i \in 1..Len(s) |-> IF s[i] = old THEN new ELSE s[i]]

\* strings.Split on a one-character separator: always at least one part.
RECURSIVE SplitFrom(_, _, _)
SplitFrom(s, sep, cur) ==
  IF s = <<>> THEN <<cur>>
  ELSE IF s[1] = sep THEN <<cur>> \o SplitFrom(Tail(s), sep, <<>>)
  ELSE SplitFrom(Tail(s), sep, Append(cur, s[1]))

Split(s, sep) == SplitFrom(s, sep, <<>>)

\* strings.Fields: the maximal runs of non-space characters.
RECURSIVE FieldsFrom(_, _)
FieldsFrom(s, cur) ==
  IF s = <<>> THEN (IF cur = <<>> THEN <<>> ELSE <<cur>>)
  ELSE IF IsSpace(s[1])
       THEN (IF cur = <<>> THEN <<>> ELSE <<cur>>) \o FieldsFrom(Tail(s), <<>>)
       ELSE FieldsFrom(Tail(s), Append(cur, s[1]))

Fields(s) == FieldsFrom(s, <<>>)

\* strings.Join.
RECURSIVE Join(_, _)
Join(parts, sep) ==
  IF parts = <<>> THEN <<>>
  ELSE IF Len(parts) = 1 THEN parts[1]
  ELSE parts[1] \o sep \o Join(Tail(parts), sep)

\* cases.Title(language.English, cases.Compact).String: the first cased
\* letter of a word is upper-cased, the other letters lower-cased; a space,
\* a tab, '-' and '/' end a word, the other characters are copied and leave
\* the word open.
RECURSIVE TitleFrom(_, _)
TitleFrom(s, midWord) ==
  IF s = <<>> THEN <<>>
  ELSE IF IsUpper(s[1]) \/ IsLower(s[1])
       THEN <<IF midWord THEN LowerOf(s[1]) ELSE UpperOf(s[1])>>
            \o TitleFrom(Tail(s), TRUE)
       ELSE <<s[1]>>
            \o TitleFrom(Tail(s), midWord /\ s[1] \notin {" ", "\t", "-", "/"})

TitleCase(s) == TitleFrom(s, FALSE)

----------------------------------------------------------------------------
(* path/filepath on a platform whose separator is '/'.                     *)

Separator == "/"

\* filepath.Clean: the elements of a path after dropping empty and "."
\* elements and resolving ".." against the element before it.
RECURSIVE CleanElems(_, _, _)
CleanElems(elems, out, rooted) ==
  IF elems = <<>> THEN out
  ELSE LET e == elems[1] IN
       IF e = <<>> \/ e = <<".">> THEN CleanElems(Tail(elems), out, rooted)
       ELSE IF e = <<".", ".">>
            THEN IF out # <<>> /\ out[Len(out)] # <<".", ".">>
                 THEN CleanElems(Tail(elems), SubSeq(out, 1, Len(out) - 1), rooted)
                 ELSE IF rooted THEN CleanElems(Tail(elems), out, rooted)
                 ELSE CleanElems(Tail(elems), Append(out, e), rooted)
            ELSE CleanElems(Tail(elems), Append(out, e), rooted)

Clean(path) ==
  IF path = <<>> THEN <<".">>
  ELSE LET rooted == path[1] = Separator
           body   == Join(CleanElems(Split(path, Separator), <<>>, rooted), <<Separator>>)
       IN IF rooted THEN <<Separator>> \o body
          ELSE IF body = <<>> THEN <<".">> ELSE body

RECURSIVE StripTrailingSeps(_)
StripTrailingSeps(p) ==
  IF p # <<>> /\ p[Len(p)] = Separator
  THEN StripTrailingSeps(SubSeq(p, 1, Len(p) - 1)) ELSE p

\* filepath.Base.
Base(path) ==
  IF path = <<>> THEN <<".">>
  ELSE LET p == StripTrailingSeps(path) IN
       IF p = <<>> THEN <<Separator>>
       ELSE LET parts == Split(p, Separator) IN parts[Len(parts)]

\* filepath.Ext: the suffix of the last element that starts at its last dot.
RECURSIVE ExtFrom(_, _)
ExtFrom(path, i) ==
  IF i < 1 \/ path[i] = Separator THEN <<>>
  ELSE IF path[i] = "." THEN SubSeq(path, i, Len(path))
  ELSE ExtFrom(path, i - 1)

Ext(path) == ExtFrom(path, Len(path))

\* filepath.Join of a directory path and one name.
JoinPath(dir, name) == Clean(dir \o <<Separator>> \o name)

----------------------------------------------------------------------------
(* Service-name derivation.                                                *)

\* formatServiceName: '-' and '_' become spaces, runs of white space collapse
\* to one space, then title-casing.
formatServiceName(name) ==
  LET n1 == ReplaceAll(name, "-", " ")
      n2 == ReplaceAll(n1, "_", " ")
      n3 == Join(Fields(n2), <<" ">>)
  IN TitleCase(n3)

\* The keys of the genericDirs map of deriveName.
genericDirs ==
  { <<"d","o","c","s">>, <<"d","o","c">>,
    <<"d","o","c","u","m","e","n","t","a","t","i","o","n">>,
    <<"s","p","e","c","i","f","i","c","a","t","i","o","n","s">>,
    <<"s","p","e","c","s">>, <<".">>, <<"/">>, <<>> }

apiDirNames ==
  { <<"s","p","e","c">>, <<"s","p","e","c","s">>, <<"a","p","i">>,
    <<"a","p","i","s">>, <<"s","w","a","g","g","e","r">>,
    <<"o","p","e","n","a","p","i">>, <<"o","a","s">> }

minPathDepth == 2

\* Strategy 1 of deriveName: the loop "for i := len(pathParts)-1; i > 0; i--",
\* with i the 1-based index of the segment under test; <<>> when no marker
\* segment has a non-generic predecessor, else <<candidate>>.
RECURSIVE MarkerCandidate(_, _)
MarkerCandidate(pathParts, i) ==
  IF i < 2 THEN <<>>
  ELSE IF /\ ToLower(pathParts[i]) \in apiDirNames
          /\ ToLower(pathParts[i - 1]) \notin genericDirs
       THEN <<pathParts[i - 1]>>
       ELSE MarkerCandidate(pathParts, i - 1)

(* Variant: the path is consulted before the title.                       *)
deriveName_PathFirst(title, path) ==
  LET serviceName   == TrimSpace(title)
      cleanPath     == Clean(path)
      pathParts     == Split(cleanPath, Separator)
      base          == Base(cleanPath)
      filenameNoExt == TrimSuffix(base, Ext(base))
      marker        == MarkerCandidate(pathParts, Len(pathParts))
  IN IF marker # <<>> THEN formatServiceName(marker[1])
     ELSE IF serviceName # <<>> THEN formatServiceName(serviceName)
     ELSE IF /\ Len(pathParts) >= minPathDepth
             /\ ToLower(pathParts[Len(pathParts) - 1]) \notin genericDirs
          THEN formatServiceName(pathParts[Len(pathParts) - 1])
          ELSE formatServiceName(filenameNoExt)

(* Variant: the marker scan runs from the root and stops at the first     *)
(* marker directory, whatever precedes it.                                *)
RECURSIVE MarkerFromRoot(_, _)
MarkerFromRoot(pathParts, i) ==
  IF i > Len(pathParts)
  THEN <<>>
  ELSE IF ToLower(pathParts[i]) \in apiDirNames
       THEN IF ToLower(pathParts[i - 1]) \notin genericDirs
            THEN <<pathParts[i - 1]>>
            ELSE <<>>
       ELSE MarkerFromRoot(pathParts, i + 1)

deriveName_LeftmostMarker(title, path) ==
  LET serviceName   == TrimSpace(title)
      cleanPath     == Clean(path)
      pathParts     == Split(cleanPath, Separator)
      base          == Base(cleanPath)
      filenameNoExt == TrimSuffix(base, Ext(base))
      marker        == MarkerFromRoot(pathParts, 2)
  IN IF serviceName # <<>> THEN formatServiceName(serviceName)
     ELSE IF marker # <<>> THEN formatServiceName(marker[1])
     ELSE IF /\ Len(pathParts) >= minPathDepth
             /\ ToLower(pathParts[Len(pathParts) - 1]) \notin genericDirs
          THEN formatServiceName(pathParts[Len(pathParts) - 1])
          ELSE formatServiceName(filenameNoExt)

(* Variant: the parent directory is never used.                           *)
deriveName_NoParent(title, path) ==
  LET serviceName   == TrimSpace(title)
      cleanPath     == Clean(path)
      pathParts     == Split(cleanPath, Separator)
      base          == Base(cleanPath)
      filenameNoExt == TrimSuffix(base, Ext(base))
      marker        == MarkerCandidate(pathParts, Len(pathParts))
  IN IF serviceName # <<>> THEN formatServiceName(serviceName)
     ELSE IF marker # <<>> THEN formatServiceName(marker[1])
     ELSE formatServiceName(filenameNoExt)

(* Variant: the fallback keeps the file extension.                        *)
deriveName_KeepExt(title, path) ==
  LET serviceName   == TrimSpace(title)
      cleanPath     == Clean(path)
      pathParts     == Split(cleanPath, Separator)
      base          == Base(cleanPath)
      filenameNoExt == TrimSuffix(base, Ext(base))
      marker        == MarkerCandidate(pathParts, Len(pathParts))
  IN IF serviceName # <<>> THEN formatServiceName(serviceName)
     ELSE IF marker # <<>> THEN formatServiceName(marker[1])
     ELSE IF /\ Len(pathParts) >= minPathDepth
             /\ ToLower(pathParts[Len(pathParts) - 1]) \notin genericDirs
          THEN formatServiceName(pathParts[Len(pathParts) - 1])
          ELSE formatServiceName(base)

deriveName(title, path) ==
  LET serviceName   == TrimSpace(title)
      cleanPath     == Clean(path)
      pathParts     == Split(cleanPath, Separator)
      base          == Base(cleanPath)
      filenameNoExt == TrimSuffix(base, Ext(base))
      marker        == MarkerCandidate(pathParts, Len(pathParts))
  IN IF serviceName # <<>> THEN formatServiceName(serviceName)
     ELSE IF marker # <<>> THEN formatServiceName(marker[1])
     ELSE IF /\ Len(pathParts) >= minPathDepth
             /\ ToLower(pathParts[Len(pathParts) - 1]) \notin genericDirs
          THEN formatServiceName(pathParts[Len(pathParts) - 1])
          ELSE formatServiceName(filenameNoExt)

(* The earlier deriveName: a trimmed title, else the segment before the    *)
(* first "spec" segment, else the file name without its extension; the    *)
(* result is title-cased only.                                            *)

\* The loop "for i := range len(pathParts) - 1" with k = i + 1 the 1-based
\* index of the segment under test. pathParts[i-1] is evaluated only when
\* pathParts[i] == "spec"; at i = 0 that index is -1 and the run panics.
RECURSIVE SpecParent(_, _, _)
SpecParent(pathParts, k, fallback) ==
  IF k > Len(pathParts) - 1
  THEN [panic |-> FALSE, serviceName |-> fallback]
  ELSE IF pathParts[k] = <<"s", "p", "e", "c">>
       THEN IF k = 1
            THEN [panic |-> TRUE, serviceName |-> fallback]
            ELSE IF pathParts[k - 1] # <<>>
                 THEN [panic |-> FALSE, serviceName |-> pathParts[k - 1]]
                 ELSE SpecParent(pathParts, k + 1, fallback)
       ELSE SpecParent(pathParts, k + 1, fallback)

deriveName0(title, path) ==
  LET serviceName   == TrimSpace(title)
      cleanPath     == Clean(path)
      base0         == Base(cleanPath)
      base          == IF base0 = <<".">> \/ base0 = <<Separator>> THEN <<>> ELSE base0
      filenameNoExt == TrimSuffix(base, Ext(base))
      pathParts     == Split(cleanPath, Separator)
      found         == SpecParent(pathParts, 1, filenameNoExt)
  IN IF serviceName # <<>>
     THEN [panic |-> FALSE, name |-> TitleCase(serviceName)]
     ELSE IF found.panic
          THEN [panic |-> TRUE, name |-> <<>>]
          ELSE [panic |-> FALSE, name |-> TitleCase(found.serviceName)]

----------------------------------------------------------------------------
(* Format sniffing and the two parsers.                                    *)
(*                                                                         *)
(* A file's content is a record of what the readers and the two schema     *)
(* libraries see in its bytes:                                             *)
(*   head          the leading bytes of the content                        *)
(*   load3Err      oas3.Loader.LoadFromData returns an error               *)
(*   openapi       the OpenAPI field of the loaded oas3.T                  *)
(*   yamlErr       yaml.YAMLToJSON returns an error                        *)
(*   unmarshal2Err json.Unmarshal into oas2.Swagger returns an error       *)
(*   swagger       the Swagger field of the unmarshalled oas2.Swagger      *)
(*   info          the info block, <<>> when absent (a nil *Info)          *)
(*   paths         the paths section as json.Marshal renders it            *)
(* A nilable pointer is a sequence: <<>> is nil, <<v>> points to v.        *)

JSON == <<"j","s","o","n">>

YAML == <<"y","a","m","l">>

ExtJSON == <<".">> \o JSON

ExtYAML == <<".">> \o YAML

ExtYML == <<".","y","m","l">>

\* looksLikeJSON: the content starts with '{' or '[' once leading spaces,
\* tabs, CRs and LFs are dropped.
RECURSIVE TrimLeftBlank(_)
TrimLeftBlank(data) ==
  IF data # <<>> /\ data[1] \in {" ", "\n", "\r", "\t"}
  THEN TrimLeftBlank(Tail(data)) ELSE data

looksLikeJSON(data) ==
  LET trim == TrimLeftBlank(data)
  IN trim # <<>> /\ trim[1] \in {"{", "["}

\* Variant: the extension is compared as written, without lowercasing.
detectFormatFromExtOrContent_CaseSensitive(path, data) ==
  LET ext == Ext(path)
  IN IF ext = ExtJSON THEN JSON
     ELSE IF ext \in {ExtYAML, ExtYML} THEN YAML
     ELSE IF looksLikeJSON(data) THEN JSON ELSE YAML

\* Variant: content that looks like JSON decides before the extension.
detectFormatFromExtOrContent_ContentFirst(path, data) ==
  LET ext == ToLower(Ext(path))
  IN IF looksLikeJSON(data) THEN JSON
     ELSE IF ext = ExtJSON THEN JSON ELSE YAML

detectFormatFromExtOrContent(path, data) ==
  LET ext == ToLower(Ext(path))
  IN IF ext = ExtJSON THEN JSON
     ELSE IF ext \in {ExtYAML, ExtYML} THEN YAML
     ELSE IF looksLikeJSON(data) THEN JSON ELSE YAML

\* Variant: the content goes to json.Unmarshal as it is.
unmarshalYAMLOrJSON_NoConvert(d) ==
  [calls |-> <<"json.Unmarshal">>, err |-> d.unmarshal2Err]

\* unmarshalYAMLOrJSON: the library calls it makes and whether it fails.
unmarshalYAMLOrJSON(d) ==
  IF looksLikeJSON(d.head)
  THEN [calls |-> <<"json.Unmarshal">>, err |-> d.unmarshal2Err]
  ELSE IF d.yamlErr
       THEN [calls |-> <<"yaml.YAMLToJSON">>, err |-> TRUE]
       ELSE [calls |-> <<"yaml.YAMLToJSON", "json.Unmarshal">>,
             err |-> d.unmarshal2Err]

\* toRaw: nil for a nil value and for one that marshals to nothing or "null".
NullJSON == <<"n","u","l","l">>

toRaw(v) ==
  IF v = <<>> \/ v[1] = <<>> \/ v[1] = NullJSON THEN <<>> ELSE v

NoInfo ==
  [Title |-> <<>>, Version |-> <<>>, Description |-> <<>>,
   TermsOfService |-> <<>>, Contact |-> <<>>, License |-> <<>>]

toContact(c) ==
  [Name |-> TrimSpace(c.Name), URL |-> TrimSpace(c.URL), Email |-> TrimSpace(c.Email)]

toLicense(l) == [Name |-> TrimSpace(l.Name), URL |-> TrimSpace(l.URL)]

toInfoFromOAS3(in) ==
  IF in = <<>> THEN NoInfo
  ELSE [Title          |-> TrimSpace(in[1].Title),
        Version        |-> TrimSpace(in[1].Version),
        Description    |-> TrimSpace(in[1].Description),
        TermsOfService |-> TrimSpace(in[1].TermsOfService),
        Contact        |-> IF in[1].Contact = <<>> THEN <<>>
                           ELSE <<toContact(in[1].Contact[1])>>,
        License        |-> IF in[1].License = <<>> THEN <<>>
                           ELSE <<toLicense(in[1].License[1])>>]

\* toInfoFromOAS2 copying the description as it is.
toInfoFromOAS2_RawDescription(in) ==
  IF in = <<>> THEN NoInfo
  ELSE [toInfoFromOAS3(in) EXCEPT !.Description = in[1].Description]

toInfoFromOAS2(in) ==
  IF in = <<>> THEN NoInfo
  ELSE [Title          |-> TrimSpace(in[1].Title),
        Version        |-> TrimSpace(in[1].Version),
        Description    |-> TrimSpace(in[1].Description),
        TermsOfService |-> TrimSpace(in[1].TermsOfService),
        Contact        |-> IF in[1].Contact = <<>> THEN <<>>
                           ELSE <<toContact(in[1].Contact[1])>>,
        License        |-> IF in[1].License = <<>> THEN <<>>
                           ELSE <<toLicense(in[1].License[1])>>]

\* The zero SwaggerSpec.
ZeroSpec ==
  [Swagger2Doc |-> <<>>, OpenAPI3Doc |-> <<>>,
   Name |-> <<>>, Title |-> <<>>, Version |-> <<>>, Description |-> <<>>,
   Path |-> <<>>, Service |-> <<>>, Format |-> <<>>, FileName |-> <<>>,
   OpenAPIVersion |-> <<>>, SwaggerVersion |-> <<>>,
   DocV3 |-> <<>>, DocV2 |-> <<>>, Raw |-> <<>>]

\* oas3Accepted testing the marker without trimming it.
oas3Accepted_NoTrim(d) == ~d.load3Err /\ d.openapi # <<>>

\* The condition of the OpenAPI 3 branch of parseSwaggerSpec.
oas3Accepted(d) == ~d.load3Err /\ TrimSpace(d.openapi) # <<>>

\* The condition of the Swagger 2.0 branch, given unmarshalYAMLOrJSON's error.
oas2Accepted(d, err2) == ~err2 /\ TrimSpace(d.swagger) # <<>>

\* The record parseSwaggerSpec starts from once the file is read.
baseSpec(path, d) ==
  [ZeroSpec EXCEPT !.Path = path, !.FileName = Base(path),
                   !.Format = detectFormatFromExtOrContent(path, d.head),
                   !.Raw = <<d>>]

\* The OpenAPI 3 record keeping the marker as the document has it, while the
\* view holds the trimmed one.
specV3_RawVersion(path, d) ==
  LET version == TrimSpace(d.openapi)
      view    == [OpenAPI |-> version, Info |-> toInfoFromOAS3(d.info),
                  Paths |-> toRaw(<<d.paths>>)]
  IN [baseSpec(path, d) EXCEPT
        !.DocV3 = <<d>>, !.OpenAPIVersion = d.openapi, !.OpenAPI3Doc = <<view>>,
        !.Title = view.Info.Title, !.Version = view.Info.Version,
        !.Description = view.Info.Description,
        !.Name = deriveName(view.Info.Title, path),
        !.Service = deriveName(view.Info.Title, path)]

\* The record of the OpenAPI 3 branch.
specV3(path, d) ==
  LET version == TrimSpace(d.openapi)
      view    == [OpenAPI |-> version, Info |-> toInfoFromOAS3(d.info),
                  Paths |-> toRaw(<<d.paths>>)]
  IN [baseSpec(path, d) EXCEPT
        !.DocV3 = <<d>>, !.OpenAPIVersion = version, !.OpenAPI3Doc = <<view>>,
        !.Title = view.Info.Title, !.Version = view.Info.Version,
        !.Description = view.Info.Description,
        !.Name = deriveName(view.Info.Title, path),
        !.Service = deriveName(view.Info.Title, path)]

\* The Swagger 2.0 record with Service derived from the path alone and Name
\* from the title and the file name.
specV2_NameFromFileName(path, d) ==
  LET version == TrimSpace(d.swagger)
      view    == [Swagger |-> version, Info |-> toInfoFromOAS2(d.info),
                  Paths |-> toRaw(<<d.paths>>)]
  IN [baseSpec(path, d) EXCEPT
        !.DocV2 = <<d>>, !.SwaggerVersion = version, !.Swagger2Doc = <<view>>,
        !.Title = view.Info.Title, !.Version = view.Info.Version,
        !.Description = view.Info.Description,
        !.Name = deriveName(view.Info.Title, Base(path)),
        !.Service = deriveName(<<>>, path)]

\* The record of the Swagger 2.0 branch.
specV2(path, d) ==
  LET version == TrimSpace(d.swagger)
      view    == [Swagger |-> version, Info |-> toInfoFromOAS2(d.info),
                  Paths |-> toRaw(<<d.paths>>)]
  IN [baseSpec(path, d) EXCEPT
        !.DocV2 = <<d>>, !.SwaggerVersion = version, !.Swagger2Doc = <<view>>,
        !.Title = view.Info.Title, !.Version = view.Info.Version,
        !.Description = view.Info.Description,
        !.Name = deriveName(view.Info.Title, path),
        !.Service = deriveName(view.Info.Title, path)]

\* parseSwaggerSpec whose OpenAPI 3 branch does not return: the Swagger 2.0
\* branch runs as well and fills its view.
parseSwaggerSpec_FallThrough(path, f) ==
  IF f.readErr
  THEN [err |-> TRUE, spec |-> ZeroSpec, calls |-> <<"os.ReadFile">>]
  ELSE LET d  == f.doc
           u2 == unmarshalYAMLOrJSON(d)
           s3 == IF oas3Accepted(d) THEN specV3(path, d) ELSE baseSpec(path, d)
           s2 == specV2(path, d)
       IN IF oas2Accepted(d, u2.err)
          THEN [err |-> FALSE,
                spec |-> [s2 EXCEPT !.OpenAPI3Doc = s3.OpenAPI3Doc, !.DocV3 = s3.DocV3,
                                    !.OpenAPIVersion = s3.OpenAPIVersion],
                calls |-> <<"os.ReadFile", "oas3.LoadFromData">> \o u2.calls]
          ELSE IF oas3Accepted(d)
               THEN [err |-> FALSE, spec |-> s3,
                     calls |-> <<"os.ReadFile", "oas3.LoadFromData">> \o u2.calls]
               ELSE [err |-> TRUE, spec |-> ZeroSpec,
                     calls |-> <<"os.ReadFile", "oas3.LoadFromData">> \o u2.calls]

\* parseSwaggerSpec trying Swagger 2.0 before OpenAPI 3.
parseSwaggerSpec_V2First(path, f) ==
  IF f.readErr
  THEN [err |-> TRUE, spec |-> ZeroSpec, calls |-> <<"os.ReadFile">>]
  ELSE LET d  == f.doc
           u2 == unmarshalYAMLOrJSON(d)
       IN IF oas2Accepted(d, u2.err)
          THEN [err |-> FALSE, spec |-> specV2(path, d),
                calls |-> <<"os.ReadFile">> \o u2.calls]
          ELSE IF oas3Accepted(d)
               THEN [err |-> FALSE, spec |-> specV3(path, d),
                     calls |-> <<"os.ReadFile">> \o u2.calls \o <<"oas3.LoadFromData">>]
               ELSE [err |-> TRUE, spec |-> ZeroSpec,
                     calls |-> <<"os.ReadFile">> \o u2.calls \o <<"oas3.LoadFromData">>]

\* parseSwaggerSpec on a file of the tree: the error flag, the record and the
\* calls made, in order.  f.readErr says that os.ReadFile fails on the file.
parseSwaggerSpec(path, f) ==
  IF f.readErr
  THEN [err |-> TRUE, spec |-> ZeroSpec, calls |-> <<"os.ReadFile">>]
  ELSE LET d  == f.doc
           u2 == unmarshalYAMLOrJSON(d)
       IN IF oas3Accepted(d)
          THEN [err |-> FALSE, spec |-> specV3(path, d),
                calls |-> <<"os.ReadFile", "oas3.LoadFromData">>]
          ELSE IF oas2Accepted(d, u2.err)
               THEN [err |-> FALSE, spec |-> specV2(path, d),
                     calls |-> <<"os.ReadFile", "oas3.LoadFromData">> \o u2.calls]
               ELSE [err |-> TRUE, spec |-> ZeroSpec,
                     calls |-> <<"os.ReadFile", "oas3.LoadFromData">> \o u2.calls]

----------------------------------------------------------------------------
(* The directory tree and filepath.Walk.                                   *)
(*                                                                         *)
(* A tree is a record: root, the path handed to DiscoverSwaggerSpecs;      *)
(* rootErr, os.Lstat fails on the root; files, a function from the         *)
(* relative paths of the non-directory entries (sequences of names) to     *)
(* their states; badDirs, the directories whose listing fails.  The        *)
(* directories of the tree are the proper prefixes of its file paths.      *)
(* A file state is a record: kind ("regular" or "symlink", what Lstat      *)
(* reports), lstatErr (Lstat fails on the entry), readErr (os.ReadFile     *)
(* fails) and doc (the content read, through the link for a symlink).      *)

VARIABLES
  fs,       \* the directory tree; it changes only under the running server
  pc,       \* "idle", "walking", "returned"; "serving" / "exited" for main;
            \* "name" / "named" and "format" / "formatted" for the direct calls
  run,      \* the number of calls of DiscoverSwaggerSpecs so far
  todo,     \* the entries filepath.Walk has still to visit, in order
  specs,    \* the accumulator of DiscoverSwaggerSpecs
  walkRet,  \* the error the walk function returned last: "nil" or "err"
  result,   \* what the last call returned: [specs, err]
  prev,     \* what the call before it returned, <<>> when there was none
  visited,  \* the calls of the walk function in this run: [path, walkErr]
  calls,    \* the file and library calls of this run: [path, call]
  nameIn,   \* the arguments of a direct deriveName call: [title, path]
  nameOut,  \* its result, <<>> before the call
  fmtIn,    \* the arguments of a direct detectFormatFromExtOrContent call: [path, data]
  fmtOut,   \* its result, <<>> before the call
  held,     \* the list the HTTP handlers were built with
  resp,     \* the response to the last HTTP request
  page      \* the state of the scripts of a page in the browser

vars ==
  <<fs, pc, run, todo, specs, walkRet, result, prev, visited, calls,
    nameIn, nameOut, fmtIn, fmtOut, held, resp, page>>

\* Lexicographic order on relative paths, names compared byte-wise: the
\* order in which Walk meets the entries (a directory before its content,
\* the names of a directory in sorted order).
RECURSIVE SegsLess(_, _)
SegsLess(a, b) ==
  IF b = <<>> THEN FALSE
  ELSE IF a = <<>> THEN TRUE
  ELSE IF a[1] # b[1] THEN StrLess(a[1], b[1])
  ELSE SegsLess(Tail(a), Tail(b))

IsPrefix(a, b) == Len(a) <= Len(b) /\ SubSeq(b, 1, Len(a)) = a

\* The directories of a tree below its root.
DirsOf(files) ==
  UNION { { SubSeq(p, 1, n) : n \in 1..(Len(p) - 1) } : p \in DOMAIN files }

\* The path Walk hands to the walk function for the entry at segs.
RECURSIVE PathOf(_, _)
PathOf(rootPath, segs) ==
  IF segs = <<>> THEN rootPath
  ELSE PathOf(JoinPath(rootPath, segs[1]), Tail(segs))

\* What Walk hands to the walk function for an entry: its path, whether
\* info.IsDir(), the error (of Lstat, or of listing a directory), and the
\* file state behind it.
NoDoc ==
  [head |-> <<>>, load3Err |-> TRUE, openapi |-> <<>>, yamlErr |-> TRUE,
   unmarshal2Err |-> TRUE, swagger |-> <<>>, info |-> <<>>, paths |-> <<>>]

DirEntry(tree, segs) ==
  [segs |-> segs, path |-> PathOf(tree.root, segs), isDir |-> TRUE,
   kind |-> "dir", walkErr |-> segs \in tree.badDirs,
   readErr |-> TRUE, doc |-> NoDoc]

FileEntry(tree, segs) ==
  [segs |-> segs, path |-> PathOf(tree.root, segs), isDir |-> FALSE,
   kind |-> tree.files[segs].kind, walkErr |-> tree.files[segs].lstatErr,
   readErr |-> tree.files[segs].readErr, doc |-> tree.files[segs].doc]

RootErrEntry(tree) ==
  [segs |-> <<>>, path |-> tree.root, isDir |-> FALSE, kind |-> "none",
   walkErr |-> TRUE, readErr |-> TRUE, doc |-> NoDoc]

EntriesOf(tree) ==
  { DirEntry(tree, d) : d \in DirsOf(tree.files) \cup {<<>>} }
    \cup { FileEntry(tree, p) : p \in DOMAIN tree.files }

\* The entries of a set in Walk's order.
RECURSIVE InWalkOrder(_)
InWalkOrder(es) ==
  IF es = {} THEN <<>>
  ELSE LET first == CHOOSE e \in es :
                      \A o \in es \ {e} : SegsLess(e.segs, o.segs)
       IN <<first>> \o InWalkOrder(es \ {first})

\* filepath.Walk before its first call of the walk function: one call with
\* the Lstat error when the root cannot be examined, else the whole tree.
WalkPlan(tree) ==
  IF tree.rootErr THEN <<RootErrEntry(tree)>>
  ELSE InWalkOrder(EntriesOf(tree))

\* Walk after a call of the walk function that returned nil: an entry that
\* came with an error is not descended into.
RECURSIVE DropBelow(_, _)
DropBelow(segs, entries) ==
  IF entries = <<>> THEN <<>>
  ELSE IF IsPrefix(segs, entries[1].segs) THEN DropBelow(segs, Tail(entries))
  ELSE entries

WalkRest(e, rest) == IF e.walkErr THEN DropBelow(e.segs, rest) ELSE rest

----------------------------------------------------------------------------
(* DiscoverSwaggerSpecs.                                                   *)

\* The extension test of the walk function.
isSpecExt(path) == ToLower(Ext(path)) \in {ExtYAML, ExtYML, ExtJSON}

\* serviceLess comparing the wrong field.
serviceLess_ByPath(a, b) == StrLess(a.Path, b.Path)

\* The less function handed to sort.Slice.
serviceLess(a, b) == StrLess(a.Service, b.Service)

\* sort.Slice on at most 12 elements is an insertion sort: element i moves
\* left while it is less than its left neighbour.
RECURSIVE InsertLeft(_, _)
InsertLeft(s, j) ==
  IF j > 1 /\ serviceLess(s[j], s[j - 1])
  THEN InsertLeft([s EXCEPT ![j] = s[j - 1], ![j - 1] = s[j]], j - 1)
  ELSE s

RECURSIVE InsertionSortFrom(_, _)
InsertionSortFrom(s, i) ==
  IF i > Len(s) THEN s ELSE InsertionSortFrom(InsertLeft(s, i), i + 1)

sortSlice(s) == InsertionSortFrom(s, 2)

\* newSpecs for an accumulator that outlives the call.
newSpecs_Kept == specs

\* "var specs []SwaggerSpec": the accumulator of a call starts empty.
newSpecs == <<>>

\* walkFn handing a parse error back to Walk.
walkFn_Propagate(e, acc) ==
  IF e.walkErr THEN [specs |-> acc, calls |-> <<>>, ret |-> "nil"]
  ELSE IF e.isDir THEN [specs |-> acc, calls |-> <<>>, ret |-> "nil"]
  ELSE IF ~isSpecExt(e.path) THEN [specs |-> acc, calls |-> <<>>, ret |-> "nil"]
  ELSE LET r == parseSwaggerSpec(e.path, e) IN
       IF r.err THEN [specs |-> acc, calls |-> r.calls, ret |-> "err"]
       ELSE [specs |-> Append(acc, r.spec), calls |-> r.calls, ret |-> "nil"]

\* walkFn without the directory test.
walkFn_NoDirSkip(e, acc) ==
  IF e.walkErr THEN [specs |-> acc, calls |-> <<>>, ret |-> "nil"]
  ELSE IF ~isSpecExt(e.path) THEN [specs |-> acc, calls |-> <<>>, ret |-> "nil"]
  ELSE LET r == parseSwaggerSpec(e.path, e) IN
       IF r.err THEN [specs |-> acc, calls |-> r.calls, ret |-> "nil"]
       ELSE [specs |-> Append(acc, r.spec), calls |-> r.calls, ret |-> "nil"]

\* The walk function of DiscoverSwaggerSpecs on one entry: the accumulator,
\* the calls made and the error returned to Walk.
walkFn(e, acc) ==
  IF e.walkErr THEN [specs |-> acc, calls |-> <<>>, ret |-> "nil"]
  ELSE IF e.isDir THEN [specs |-> acc, calls |-> <<>>, ret |-> "nil"]
  ELSE IF ~isSpecExt(e.path) THEN [specs |-> acc, calls |-> <<>>, ret |-> "nil"]
  ELSE LET r == parseSwaggerSpec(e.path, e) IN
       IF r.err THEN [specs |-> acc, calls |-> r.calls, ret |-> "nil"]
       ELSE [specs |-> Append(acc, r.spec), calls |-> r.calls, ret |-> "nil"]

\* What DiscoverSwaggerSpecs returns once Walk has returned.
discoverResult(acc, ret) ==
  IF ret # "nil" THEN [specs |-> <<>>, err |-> TRUE]
  ELSE [specs |-> sortSlice(acc), err |-> FALSE]

----------------------------------------------------------------------------
(* Bounds and inputs.                                                      *)

\* The number of calls of DiscoverSwaggerSpecs in a behaviour.
MaxRuns == 2

\* The number of non-directory entries of a tree.
MaxEntries == 2

RootDirs == { <<".">> }

V303 == <<"3", ".", "0", ".", "3">>

V20 == <<"2", ".", "0">>

Markers3 == { <<>>, <<" ">>, <<" ">> \o V303 }

Markers2 == { <<>>, <<"\t">>, V20 \o <<" ">> }

Heads == { <<"\n", " ", "{">>, <<"o", "p">> }

NullablePaths == { NullJSON, <<"{", "}">> }

InfoB ==
  [Title |-> <<" ", "b", " ">>, Version |-> <<" ", "1">>,
   Description |-> <<"d", "\t">>, TermsOfService |-> <<>>,
   Contact |-> <<>>, License |-> <<>>]

InfoA ==
  [Title |-> <<"a">>, Version |-> <<"1">>, Description |-> <<>>,
   TermsOfService |-> <<" ", "t">>,
   Contact |-> <<[Name |-> <<" ", "n">>, URL |-> <<>>, Email |-> <<"e", " ">>]>>,
   License |-> <<[Name |-> <<"l", " ">>, URL |-> <<>>]>>]

InfoBlank == [InfoB EXCEPT !.Title = <<" ">>, !.Description = <<"\t", "d">>]

InfoDash == [InfoA EXCEPT !.Title = <<"-">>]

Infos == { <<>>, <<InfoA>>, <<InfoB>>, <<InfoBlank>>, <<InfoDash>> }

\* Every content: a YAML conversion only fails on content that is not JSON.
AllDocs ==
  { d \in [head : Heads, load3Err : BOOLEAN, openapi : Markers3,
           yamlErr : BOOLEAN, unmarshal2Err : BOOLEAN, swagger : Markers2,
           info : Infos, paths : NullablePaths] :
      looksLikeJSON(d.head) => ~d.yamlErr }

MkDoc(head, openapi, swagger, info) ==
  [head |-> head, load3Err |-> FALSE, openapi |-> openapi, yamlErr |-> FALSE,
   unmarshal2Err |-> FALSE, swagger |-> swagger, info |-> info,
   paths |-> <<"{", "}">>]

\* Two contents of the specification's scenarios.  DocE is the JSON object
\* {"openapi": "3.0.3", "info": {"title": "X"}}: the loader reads it (it does
\* not validate) and the document has no paths.  DocF is YAML holding
\* swagger: "2.0" and no openapi key, with either answer of the loader.
DocE ==
  [head |-> <<"{">>, load3Err |-> FALSE, openapi |-> V303, yamlErr |-> FALSE,
   unmarshal2Err |-> FALSE, swagger |-> <<>>,
   info |-> <<[NoInfo EXCEPT !.Title = <<"X">>]>>, paths |-> NullJSON]

DocF(load3Err) ==
  [head |-> <<"s", "w">>, load3Err |-> load3Err, openapi |-> <<>>,
   yamlErr |-> FALSE, unmarshal2Err |-> FALSE, swagger |-> V20,
   info |-> <<>>, paths |-> NullJSON]

ScenarioDocs == { DocE, DocF(FALSE), DocF(TRUE) }

\* The contents of the trees that are walked: an OpenAPI 3 document without
\* a title, a Swagger 2.0 document and a plain configuration file.
WalkDocs ==
  { MkDoc(<<"\n", " ", "{">>, <<" ">> \o V303, <<>>, <<InfoBlank>>),
    MkDoc(<<"o", "p">>, <<>>, V20 \o <<" ">>, <<InfoA>>),
    MkDoc(<<"o", "p">>, <<>>, <<>>, <<>>) }

FileStates ==
  { [kind |-> "regular", lstatErr |-> FALSE, readErr |-> FALSE, doc |-> d] :
      d \in WalkDocs }
  \cup { [kind |-> "regular", lstatErr |-> FALSE, readErr |-> TRUE, doc |-> NoDoc],
         [kind |-> "regular", lstatErr |-> TRUE, readErr |-> TRUE, doc |-> NoDoc],
         [kind |-> "symlink", lstatErr |-> FALSE, readErr |-> FALSE,
          doc |-> MkDoc(<<"o", "p">>, <<>>, V20 \o <<" ">>, <<InfoA>>)] }

\* The relative paths of the files a tree may hold.
FilePaths ==
  { << <<"a", "p", "i", "s">>, <<"u", "s", "e", "r", "-", "s", "v", "c">>,
       <<"o", "p", "e", "n", "a", "p", "i", ".", "J", "S", "O", "N">> >>,
    << <<"d", "o", "c", "s">>, <<"s", "p", "e", "c">>, <<"a", ".", "y", "m", "l">> >>,
    << <<"n", "o", "t", "e", "s", ".", "t", "x", "t">> >>,
    << <<"o", "p", "e", "n", "a", "p", "i", ".", "y", "a", "m", "l">> >>,
    << <<"x", ".", "y", "a", "m", "l">>, <<"c", ".", "y", "m", "l">> >> }

ParsePaths ==
  { << <<"p", "e", "t", ".", "y", "a", "m", "l">> >>,
    << <<"s", "v", "c">>, <<"s", "p", "e", "c">>, <<"b", ".", "J", "S", "O", "N">> >> }

Titles ==
  { <<>>, <<" ">>, <<"-">>, <<" ", "b", " ">>, <<"_", "\t">>,
    <<" ", " ", "l", "o", "y", "a", "l", "t", "y", " ", " ">> }

\* The paths and contents handed to detectFormatFromExtOrContent on its own.
FormatPaths ==
  { <<"a", ".", "j", "s", "o", "n">>,
    <<"a", ".", "J", "S", "O", "N">>,
    <<"a", ".", "Y", "a", "m", "l">>,
    <<"a", ".", "y", "m", "l">>,
    <<"a", ".", "Y", "M", "L">>,
    <<"a", ".", "t", "x", "t">>,
    <<"a">>,
    <<"d", "i", "r", ".", "j", "s", "o", "n", "/", "a">>,
    <<"a", ".", "j", "s", "o", "n", ".", "b", "a", "k">> }

FormatHeads ==
  { <<>>,
    <<"{">>,
    <<"[">>,
    <<" ", "\t", "\r", "\n", "{">>,
    <<"\n", "[">>,
    <<"x", "{">>,
    <<" ", " ">>,
    <<"a", ":", " ", "{">> }

\* The trees the server is started on: the root is the default of the -root
\* flag and every file is a readable regular file holding an OpenAPI 3
\* document without a title or a Swagger 2.0 document titled "a".
ServeRoot == <<".", ".">>

ServePaths ==
  { << <<"s", "v", "c">>, <<"s", "p", "e", "c">>, <<"a", ".", "y", "a", "m", "l">> >>,
    << <<"s", "v", "c">>, <<"s", "p", "e", "c">>, <<"b", ".", "j", "s", "o", "n">> >>,
    << <<"s", "v", "c">>, <<"s", "p", "e", "c">>, <<"c", ".", "y", "a", "m", "l">> >> }

ServeDocs ==
  { MkDoc(<<"\n", " ", "{">>, <<" ">> \o V303, <<>>, <<InfoBlank>>),
    MkDoc(<<"o", "p">>, <<>>, V20 \o <<" ">>, <<InfoA>>) }

ServeTrees ==
  { [root |-> ServeRoot, rootErr |-> FALSE, badDirs |-> {},
     files |-> [p \in P |-> [kind |-> "regular", lstatErr |-> FALSE,
                             readErr |-> FALSE, doc |-> f[p]]]] :
      P \in SUBSET ServePaths, f \in [ServePaths -> ServeDocs] }

\* The {service} values of the requests.
Services == { <<"S", "v", "c">>, <<"A">>, <<"n", "o", "p", "e">> }

\* The /proxy requests: whether the url parameter is present, the method,
\* what the upstream exchange does, the URL the url parameter holds (its
\* part before the query string, and its query parameters as key-value
\* pairs) and the other query parameters of the request.
TargetBase == <<"h", "t", "t", "p", "s", ":", "/", "/", "a", "p", "i", ".", "e", "x", "a", "m", "p", "l", "e", ".", "c", "o", "m", "/", "x">>

ProxyRequests ==
  [hasURL : BOOLEAN, method : {"GET", "OPTIONS"},
   upstream : {"ok", "badRequest", "unreachable"},
   target : {[base |-> TargetBase, query |-> {}]}, extraQuery : {{}}]

AllProxyRequests ==
  [hasURL : BOOLEAN, method : {"GET", "POST", "HEAD", "OPTIONS"},
   upstream : {"ok", "badRequest", "unreachable"},
   target : {[base |-> TargetBase, query |-> tq] :
               tq \in {{}, {<<"a", "1">>}, {<<"a", "1">>, <<"c", "3">>}}},
   extraQuery : {{}, {<<"b", "2">>}}]

\* The trees of at most MaxEntries files, every directory listable.
Trees ==
  { [root |-> r, rootErr |-> FALSE, files |-> f, badDirs |-> {}] :
      r \in RootDirs,
      f \in UNION { [P -> FileStates] :
                      P \in { Q \in SUBSET FilePaths : Cardinality(Q) <= MaxEntries } } }

NamePaths ==
  { <<"c", "o", "n", "n", "e", "c", "t", "o", "r", "/", "l", "o", "y", "a", "l", "t", "y", "/", "s", "p", "e", "c", "/", "l", "o", "y", "a", "l", "t", "y", ".", "y", "a", "m", "l">>,
    <<"a", "p", "i", "s", "/", "u", "s", "e", "r", "-", "s", "e", "r", "v", "i", "c", "e", "/", "o", "p", "e", "n", "a", "p", "i", ".", "y", "a", "m", "l">>,
    <<"d", "o", "c", "s", "/", "p", "e", "t", "s", "t", "o", "r", "e", "/", "s", "w", "a", "g", "g", "e", "r", ".", "j", "s", "o", "n">>,
    <<"/", "t", "m", "p", "/", "m", "y", "-", "a", "p", "i", ".", "y", "a", "m", "l">>,
    <<"o", "p", "e", "n", "a", "p", "i", ".", "y", "a", "m", "l">>,
    <<"d", "o", "c", "s", "/", "o", "p", "e", "n", "a", "p", "i", ".", "y", "a", "m", "l">>,
    <<".", "y", "a", "m", "l">>,
    <<"d", "o", "c", "s", "/", ".", "y", "a", "m", "l">>,
    <<"a", "/", "-", "/", "s", "p", "e", "c", "/", "x", ".", "y", "a", "m", "l">>,
    <<"x", "/", " ", "/", "y", ".", "y", "m", "l">>,
    <<"_", ".", "j", "s", "o", "n">>,
    <<"s", "p", "e", "c", "/", "x", ".", "y", "a", "m", "l">>,
    <<"a", "/", "a", "p", "i", "/", "b", "/", "s", "p", "e", "c", "/", "x", ".", "y", "a", "m", "l">>,
    <<"s", "v", "c", "/", "a", "p", "i", "/", "d", "o", "c", "s", "/", "s", "p", "e", "c", "/", "x", ".", "y", "a", "m", "l">>,
    <<"x", "/", "S", "P", "E", "C", "/", "y", ".", "y", "a", "m", "l">>,
    <<"/", "a", "p", "i", "/", "x", ".", "y", "a", "m", "l">>,
    <<"D", "o", "c", "s", "/", "m", "y", "_", "a", "p", "i", ".", "j", "s", "o", "n">>,
    <<"p", "e", "t", "/", "o", "a", "s">> }

----------------------------------------------------------------------------
(* The state machine.                                                      *)

NoResult == [specs |-> <<>>, err |-> FALSE]

\* No page loaded.
NoPage == [script |-> "none"]

\* No request answered yet.  The request field of a response is the request
\* it answers: <<service>> for a service page, <<service, format>> for a raw
\* file, <<q>> for a /proxy request q.
NoResponse ==
  [route |-> "none", status |-> 0, contentType |-> <<>>, allowOrigin |-> FALSE,
   list |-> <<>>, file |-> <<>>, specURL |-> <<>>, format |-> <<>>,
   forwarded |-> FALSE, request |-> <<>>, allowMethods |-> FALSE,
   allowHeaders |-> FALSE, maxAge |-> <<>>, upstreamReq |-> <<>>]

InitCommon ==
  /\ pc = "idle"
  /\ run = 0
  /\ todo = <<>>
  /\ specs = <<>>
  /\ walkRet = "nil"
  /\ result = NoResult
  /\ prev = <<>>
  /\ visited = <<>>
  /\ calls = <<>>
  /\ nameIn = [title |-> <<>>, path |-> <<>>]
  /\ nameOut = <<>>
  /\ fmtIn = [path |-> <<>>, data |-> <<>>]
  /\ fmtOut = <<>>
  /\ held = <<>>
  /\ resp = NoResponse
  /\ page = NoPage

\* A tree to discover: any tree of Trees, any one of its directories
\* unlistable, or a root that cannot be examined.
Init ==
  /\ InitCommon
  /\ \E t \in Trees :
       \/ \E d \in {{}} \cup { {x} : x \in DirsOf(t.files) } :
            fs = [t EXCEPT !.badDirs = d]
       \/ t.files = << >> /\ fs = [t EXCEPT !.rootErr = TRUE]

\* main calls DiscoverSwaggerSpecs(rootDir): Walk plans its visits.
Discover ==
  /\ pc \in {"idle", "returned"}
  /\ run < MaxRuns
  /\ pc' = "walking"
  /\ run' = run + 1
  /\ specs' = newSpecs
  /\ todo' = WalkPlan(fs)
  /\ walkRet' = "nil"
  /\ prev' = IF pc = "returned" THEN <<result>> ELSE prev
  /\ visited' = <<>>
  /\ calls' = <<>>
  /\ UNCHANGED <<fs, result, nameIn, nameOut, fmtIn, fmtOut, held, resp, page>>

\* Walk calls the walk function on the next entry.
WalkFn ==
  /\ pc = "walking"
  /\ todo # <<>>
  /\ walkRet = "nil"
  /\ LET e == Head(todo)
         r == walkFn(e, specs)
     IN /\ specs' = r.specs
        /\ walkRet' = r.ret
        /\ calls' = calls \o [i \in 1..Len(r.calls) |->
                                 [path |-> e.path, segs |-> e.segs, call |-> r.calls[i]]]
        /\ visited' = Append(visited, [path |-> e.path, segs |-> e.segs, walkErr |-> e.walkErr])
        /\ todo' = WalkRest(e, Tail(todo))
  /\ UNCHANGED <<fs, pc, run, result, prev, nameIn, nameOut, fmtIn, fmtOut, held, resp, page>>

\* Walk returns (no entry left, or the walk function returned an error);
\* DiscoverSwaggerSpecs sorts and returns.
Return ==
  /\ pc = "walking"
  /\ todo = <<>> \/ walkRet # "nil"
  /\ result' = discoverResult(specs, walkRet)
  /\ pc' = "returned"
  /\ UNCHANGED <<fs, run, todo, specs, walkRet, prev, visited, calls, nameIn, nameOut,
                 fmtIn, fmtOut, held, resp, page>>

Next == Discover \/ WalkFn \/ Return

Spec == Init /\ [][Next]_vars

\* One file, of any content, in a tree of its own.
InitParse ==
  /\ InitCommon
  /\ \E p \in ParsePaths, d \in AllDocs \cup ScenarioDocs :
       fs = [root |-> <<".">>, rootErr |-> FALSE, badDirs |-> {},
             files |-> (p :> [kind |-> "regular", lstatErr |-> FALSE,
                              readErr |-> FALSE, doc |-> d])]

SpecParse == InitParse /\ [][Next]_vars

\* deriveName alone, on any title and path of the input sets.
InitName ==
  /\ pc = "name"
  /\ run = 0
  /\ todo = <<>>
  /\ specs = <<>>
  /\ walkRet = "nil"
  /\ result = NoResult
  /\ prev = <<>>
  /\ visited = <<>>
  /\ calls = <<>>
  /\ fs = [root |-> <<".">>, rootErr |-> FALSE, badDirs |-> {}, files |-> << >>]
  /\ nameIn \in [title : Titles, path : NamePaths]
  /\ nameOut = <<>>
  /\ fmtIn = [path |-> <<>>, data |-> <<>>]
  /\ fmtOut = <<>>
  /\ held = <<>>
  /\ resp = NoResponse
  /\ page = NoPage

DeriveName ==
  /\ pc = "name"
  /\ nameOut' = <<deriveName(nameIn.title, nameIn.path)>>
  /\ pc' = "named"
  /\ UNCHANGED <<fs, run, todo, specs, walkRet, result, prev, visited, calls, nameIn,
                 fmtIn, fmtOut, held, resp, page>>

NextName == DeriveName

SpecName == InitName /\ [][NextName]_vars

\* The earlier deriveName alone, on the same titles and paths.
InitName0 ==
  /\ pc = "name0"
  /\ run = 0
  /\ todo = <<>>
  /\ specs = <<>>
  /\ walkRet = "nil"
  /\ result = NoResult
  /\ prev = <<>>
  /\ visited = <<>>
  /\ calls = <<>>
  /\ fs = [root |-> <<".">>, rootErr |-> FALSE, badDirs |-> {}, files |-> << >>]
  /\ nameIn \in [title : Titles, path : NamePaths]
  /\ nameOut = <<>>
  /\ fmtIn = [path |-> <<>>, data |-> <<>>]
  /\ fmtOut = <<>>
  /\ held = <<>>
  /\ resp = NoResponse
  /\ page = NoPage

DeriveName0 ==
  /\ pc = "name0"
  /\ LET r == deriveName0(nameIn.title, nameIn.path)
     IN IF r.panic
        THEN nameOut' = <<>> /\ pc' = "panic"
        ELSE nameOut' = <<r.name>> /\ pc' = "named0"
  /\ UNCHANGED <<fs, run, todo, specs, walkRet, result, prev, visited, calls, nameIn,
                 fmtIn, fmtOut, held, resp, page>>

NextName0 == DeriveName0

SpecName0 == InitName0 /\ [][NextName0]_vars

\* detectFormatFromExtOrContent alone, on any path and content of the input
\* sets.
InitFormat ==
  /\ pc = "format"
  /\ run = 0
  /\ todo = <<>>
  /\ specs = <<>>
  /\ walkRet = "nil"
  /\ result = NoResult
  /\ prev = <<>>
  /\ visited = <<>>
  /\ calls = <<>>
  /\ fs = [root |-> <<".">>, rootErr |-> FALSE, badDirs |-> {}, files |-> <<>>]
  /\ nameIn = [title |-> <<>>, path |-> <<>>]
  /\ nameOut = <<>>
  /\ fmtIn \in [path : FormatPaths, data : FormatHeads]
  /\ fmtOut = <<>>
  /\ held = <<>>
  /\ resp = NoResponse
  /\ page = NoPage

DetectFormat ==
  /\ pc = "format"
  /\ fmtOut' = <<detectFormatFromExtOrContent(fmtIn.path, fmtIn.data)>>
  /\ pc' = "formatted"
  /\ UNCHANGED <<fs, run, todo, specs, walkRet, result, prev, visited, calls, nameIn,
                 nameOut, fmtIn, held, resp, page>>

NextFormat == DetectFormat

SpecFormat == InitFormat /\ [][NextFormat]_vars

----------------------------------------------------------------------------
(* The HTTP layer: main discovers once, hands the list to the handlers     *)
(* and serves.  A response is a record: route, status, contentType,        *)
(* allowOrigin (Access-Control-Allow-Origin: * is set), list (the records  *)
(* handed to the template or encoded), file (the path handed to            *)
(* http.ServeFile), specURL and format (of the service page), forwarded    *)
(* (the request went upstream), request (the request answered).            *)

TextHTML == <<"t", "e", "x", "t", "/", "h", "t", "m", "l">>

TextPlain == <<"t", "e", "x", "t", "/", "p", "l", "a", "i", "n", ";", " ", "c", "h", "a", "r", "s", "e", "t", "=", "u", "t", "f", "-", "8">>

TextYAML == <<"t", "e", "x", "t", "/", "y", "a", "m", "l">>

ApplicationJSON == <<"a", "p", "p", "l", "i", "c", "a", "t", "i", "o", "n", "/", "j", "s", "o", "n">>

\* What encoding/json writes for a record: the fields tagged "-" (the
\* canonical documents and the raw bytes) are left out.
encodeSpec(r) ==
  [Swagger2Doc |-> r.Swagger2Doc, OpenAPI3Doc |-> r.OpenAPI3Doc,
   name |-> r.Name, title |-> r.Title, version |-> r.Version,
   description |-> r.Description, path |-> r.Path, service |-> r.Service,
   format |-> r.Format, fileName |-> r.FileName,
   openapiVersion |-> r.OpenAPIVersion, swaggerVersion |-> r.SwaggerVersion]

encodeSpecs(list) == [i \in DOMAIN list |-> encodeSpec(list[i])]

\* DiscoverSwaggerSpecs run to its end on a tree, in one step.
RECURSIVE walkAll(_, _)
walkAll(plan, acc) ==
  IF plan = <<>> THEN discoverResult(acc, "nil")
  ELSE LET r == walkFn(Head(plan), acc)
       IN IF r.ret # "nil" THEN discoverResult(r.specs, r.ret)
          ELSE walkAll(WalkRest(Head(plan), Tail(plan)), r.specs)

DiscoverSwaggerSpecs(tree) == walkAll(WalkPlan(tree), <<>>)

\* The first of the indexes of a list that satisfy a test, 0 when none does
\* (the for ... break loops of the handlers).
FirstIndex(hits) ==
  IF hits = {} THEN 0 ELSE CHOOSE i \in hits : \A j \in hits : i <= j

handleIndex(list) ==
  [NoResponse EXCEPT !.route = "index", !.status = 200, !.contentType = TextHTML,
                     !.allowOrigin = TRUE, !.list = list]

handleServiceSwagger(list, service) ==
  LET i          == FirstIndex({ k \in DOMAIN list : list[k].Service = service })
      specFormat == IF i = 0 THEN YAML ELSE list[i].Format
  IN [NoResponse EXCEPT
        !.route = "service", !.status = 200, !.contentType = TextHTML,
        !.allowOrigin = TRUE, !.format = specFormat,
        !.specURL = <<"/", "a", "p", "i", "/", "s", "p", "e", "c", "s", "/">> \o service \o <<"/", "s", "w", "a", "g", "g", "e", "r", ".">> \o specFormat]

\* Variant: /api/specs runs discovery again on the tree as it is now.
handleSpecs_Rediscover(list) ==
  [NoResponse EXCEPT !.route = "specs", !.status = 200,
                     !.contentType = ApplicationJSON, !.allowOrigin = TRUE,
                     !.list = encodeSpecs(DiscoverSwaggerSpecs(fs).specs)]

handleSpecs(list) ==
  [NoResponse EXCEPT !.route = "specs", !.status = 200,
                     !.contentType = ApplicationJSON, !.allowOrigin = TRUE,
                     !.list = encodeSpecs(list)]

\* http.ServeFile on a plain GET: the file as it is now, with the headers
\* already set, or a plain-text 404 when no file is at the path any more.
ServeFile(tree, headers, name) ==
  IF \E p \in DOMAIN tree.files : PathOf(tree.root, p) = name
  THEN [headers EXCEPT !.status = 200, !.file = <<name>>]
  ELSE [headers EXCEPT !.status = 404, !.file = <<name>>, !.contentType = TextPlain,
                       !.allowOrigin = FALSE]

\* Variant: the first record of the service is served, whatever its format.
handleSwaggerFile_AnyFormat(list, service, urlPath, tree) ==
  LET requestedFormat == IF HasSuffix(urlPath, ExtJSON) THEN JSON ELSE YAML
      i == FirstIndex({ k \in DOMAIN list : list[k].Service = service })
      contentType == IF requestedFormat = JSON THEN ApplicationJSON ELSE TextYAML
  IN IF i = 0
     THEN [NoResponse EXCEPT !.route = "file", !.status = 404,
                             !.contentType = TextPlain]
     ELSE ServeFile(tree,
                    [NoResponse EXCEPT !.route = "file", !.contentType = contentType,
                                       !.allowOrigin = TRUE],
                    list[i].Path)

handleSwaggerFile(list, service, urlPath, tree) ==
  LET requestedFormat == IF HasSuffix(urlPath, ExtJSON) THEN JSON ELSE YAML
      i == FirstIndex({ k \in DOMAIN list : /\ list[k].Service = service
                                             /\ list[k].Format = requestedFormat })
      contentType == IF requestedFormat = JSON THEN ApplicationJSON ELSE TextYAML
  IN IF i = 0
     THEN [NoResponse EXCEPT !.route = "file", !.status = 404,
                             !.contentType = TextPlain]
     ELSE ServeFile(tree,
                    [NoResponse EXCEPT !.route = "file", !.contentType = contentType,
                                       !.allowOrigin = TRUE],
                    list[i].Path)

\* setCORSHeaders: the three Access-Control-Allow-* headers.
setCORSHeaders(w) ==
  [w EXCEPT !.allowOrigin = TRUE, !.allowMethods = TRUE, !.allowHeaders = TRUE]

handlePreflightRequest(w) ==
  [setCORSHeaders(w) EXCEPT !.maxAge = <<<<"3", "6", "0", "0">>>>, !.status = 200]

\* copyQueryParameters: the query of the upstream request becomes the query
\* of the incoming request without its url parameter.
copyQueryParameters(proxyReq, q) == [proxyReq EXCEPT !.query = q.extraQuery]

\* http.Error: a plain-text answer with the status.
httpError(w, code) == [w EXCEPT !.status = code, !.contentType = TextPlain]

\* Variant: the preflight is answered before the url parameter is looked at.
handleProxy_PreflightFirst(q) ==
  LET w == [NoResponse EXCEPT !.route = "proxy"]
      proxyReq == copyQueryParameters(q.target, q)
  IN IF q.method = "OPTIONS" THEN handlePreflightRequest(w)
     ELSE IF ~q.hasURL THEN httpError(w, 400)
     ELSE IF q.upstream = "badRequest" THEN httpError(w, 500)
     ELSE IF q.upstream = "unreachable"
     THEN [httpError(w, 502) EXCEPT !.forwarded = TRUE, !.upstreamReq = <<proxyReq>>]
     ELSE [setCORSHeaders(w) EXCEPT !.status = 200, !.forwarded = TRUE,
                                   !.upstreamReq = <<proxyReq>>]

\* handleProxy: the status and headers of its answer and the request it
\* sends upstream; the relayed status, headers and body are the upstream's
\* and are not modelled (status 200 here).
handleProxy(q) ==
  LET w == [NoResponse EXCEPT !.route = "proxy"]
      proxyReq == copyQueryParameters(q.target, q)
  IN IF ~q.hasURL THEN httpError(w, 400)
     ELSE IF q.method = "OPTIONS" THEN handlePreflightRequest(w)
     ELSE IF q.upstream = "badRequest" THEN httpError(w, 500)
     ELSE IF q.upstream = "unreachable"
     THEN [httpError(w, 502) EXCEPT !.forwarded = TRUE, !.upstreamReq = <<proxyReq>>]
     ELSE [setCORSHeaders(w) EXCEPT !.status = 200, !.forwarded = TRUE,
                                   !.upstreamReq = <<proxyReq>>]

\* The URL path of a raw-file request.
FileURL(service, format) == <<"/", "a", "p", "i", "/", "s", "p", "e", "c", "s", "/">> \o service \o <<"/", "s", "w", "a", "g", "g", "e", "r", ".">> \o format

InitServe ==
  /\ InitCommon
  /\ fs \in ServeTrees

\* main calls DiscoverSwaggerSpecs once.
MainDiscover ==
  /\ pc = "idle"
  /\ Discover

\* main registers the handlers with the list and listens, or exits on a
\* discovery error.
Listen ==
  /\ pc = "returned"
  /\ held' = result.specs
  /\ pc' = IF result.err THEN "exited" ELSE "serving"
  /\ UNCHANGED <<fs, run, todo, specs, walkRet, result, prev, visited, calls, nameIn,
                 nameOut, fmtIn, fmtOut, resp, page>>

\* GET /
GetIndex ==
  /\ pc = "serving"
  /\ resp' = handleIndex(held)
  /\ UNCHANGED <<fs, pc, run, todo, specs, walkRet, result, prev, visited, calls,
                 nameIn, nameOut, fmtIn, fmtOut, held, page>>

\* GET /service/{service}
GetService ==
  /\ pc = "serving"
  /\ \E service \in Services :
       resp' = [handleServiceSwagger(held, service) EXCEPT !.request = <<service>>]
  /\ UNCHANGED <<fs, pc, run, todo, specs, walkRet, result, prev, visited, calls,
                 nameIn, nameOut, fmtIn, fmtOut, held, page>>

\* GET /api/specs
GetSpecs ==
  /\ pc = "serving"
  /\ resp' = handleSpecs(held)
  /\ UNCHANGED <<fs, pc, run, todo, specs, walkRet, result, prev, visited, calls,
                 nameIn, nameOut, fmtIn, fmtOut, held, page>>

\* GET /api/specs/{service}/swagger.yaml and swagger.json
GetFile ==
  /\ pc = "serving"
  /\ \E service \in Services, format \in {YAML, JSON} :
       resp' = [handleSwaggerFile(held, service, FileURL(service, format), fs)
                  EXCEPT !.request = <<service, format>>]
  /\ UNCHANGED <<fs, pc, run, todo, specs, walkRet, result, prev, visited, calls,
                 nameIn, nameOut, fmtIn, fmtOut, held, page>>

\* Any method on /proxy
Proxy ==
  /\ pc = "serving"
  /\ \E q \in ProxyRequests : resp' = [handleProxy(q) EXCEPT !.request = <<q>>]
  /\ UNCHANGED <<fs, pc, run, todo, specs, walkRet, result, prev, visited, calls,
                 nameIn, nameOut, fmtIn, fmtOut, held, page>>

\* The tree changes under the running server: a file is removed, or its
\* content is replaced.
FsChange ==
  /\ pc = "serving"
  /\ \E p \in DOMAIN fs.files :
       \/ fs' = [fs EXCEPT !.files = [q \in DOMAIN fs.files \ {p} |-> fs.files[q]]]
       \/ \E d \in ServeDocs : d # fs.files[p].doc /\ fs' = [fs EXCEPT !.files[p].doc = d]
  /\ UNCHANGED <<pc, run, todo, specs, walkRet, result, prev, visited, calls, nameIn,
                 nameOut, fmtIn, fmtOut, held, resp, page>>

NextServe ==
  \/ MainDiscover \/ WalkFn \/ Return \/ Listen
  \/ GetIndex \/ GetService \/ GetSpecs \/ GetFile \/ Proxy
  \/ FsChange

SpecServe == InitServe /\ [][NextServe]_vars

\* The /proxy route alone, on every request of AllProxyRequests.
InitProxy ==
  /\ InitCommon
  /\ fs = [root |-> ServeRoot, rootErr |-> FALSE, badDirs |-> {}, files |-> <<>>]

\* main has discovered nothing and serves.
Start ==
  /\ pc = "idle"
  /\ pc' = "proxying"
  /\ UNCHANGED <<fs, run, todo, specs, walkRet, result, prev, visited, calls,
                 nameIn, nameOut, fmtIn, fmtOut, held, resp, page>>

Relay ==
  /\ pc = "proxying"
  /\ \E q \in AllProxyRequests : resp' = [handleProxy(q) EXCEPT !.request = <<q>>]
  /\ UNCHANGED <<fs, pc, run, todo, specs, walkRet, result, prev, visited, calls,
                 nameIn, nameOut, fmtIn, fmtOut, held, page>>

NextProxy == Start \/ Relay

SpecProxy == InitProxy /\ [][NextProxy]_vars

----------------------------------------------------------------------------
(* theme.js in a page.  The page state is a record: script ("theme"),      *)
(* loaded (the script has run), stored (what localStorage holds under      *)
(* 'webswags-theme': <<>> for nothing, <<v>> for the string v),            *)
(* currentTheme, dataTheme (the data-theme attribute of the document,      *)
(* <<>> while unset), systemDark (the prefers-color-scheme: dark media     *)
(* query matches), event (the last event handled) and before (currentTheme *)
(* and dataTheme as they were when that event arrived), hasSwaggerStyles   *)
(* (the page has the swagger-dark-styles element: a service page) and      *)
(* swaggerDark (that element holds the dark style sheet).                  *)

\* What localStorage may hold when the page loads.
StoredThemes ==
  { <<>>, <<"">>, <<"light">>, <<"dark">>, <<"system">>, <<"blue">>, <<"Dark">> }

themes == <<"light", "dark", "system">>

\* Array.prototype.indexOf, counted from 0; -1 when the value is absent.
indexOf(arr, v) ==
  IF \E i \in DOMAIN arr : arr[i] = v
  THEN (CHOOSE i \in DOMAIN arr : arr[i] = v /\ \A j \in 1..(i - 1) : arr[j] # v) - 1
  ELSE -1

\* localStorage.getItem(THEME_STORAGE_KEY) || 'system'.
storedOrSystem(stored) ==
  IF stored = <<>> \/ stored = <<"">> THEN "system" ELSE stored[1]

\* applyTheme: the data-theme attribute it sets.
applyTheme(theme, systemPrefersDark) ==
  IF theme = "system"
  THEN (IF systemPrefersDark THEN "dark" ELSE "light")
  ELSE theme

\* applySwaggerDarkTheme: whether the style element holds the dark sheet.
applySwaggerDarkTheme(p, effectiveTheme) ==
  IF ~p.hasSwaggerStyles THEN p.swaggerDark ELSE effectiveTheme = "dark"

Remember(p, e) ==
  [p EXCEPT !.event = e,
            !.before = [currentTheme |-> p.currentTheme, dataTheme |-> p.dataTheme]]

\* The script runs on a page load.
loadTheme(p) ==
  LET theme == storedOrSystem(p.stored)
  IN [Remember(p, "load") EXCEPT
        !.loaded = TRUE, !.currentTheme = theme,
        !.dataTheme = <<applyTheme(theme, p.systemDark)>>,
        !.swaggerDark = applySwaggerDarkTheme(p, applyTheme(theme, p.systemDark))]

\* Variant: the new preference is applied but not stored.
cycleTheme_NotStored(p) ==
  LET currentIndex == indexOf(themes, p.currentTheme)
      theme == themes[((currentIndex + 1) % Len(themes)) + 1]
  IN [Remember(p, "click") EXCEPT
        !.currentTheme = theme,
        !.dataTheme = <<applyTheme(theme, p.systemDark)>>,
        !.swaggerDark = applySwaggerDarkTheme(p, applyTheme(theme, p.systemDark))]

cycleTheme(p) ==
  LET currentIndex == indexOf(themes, p.currentTheme)
      theme == themes[((currentIndex + 1) % Len(themes)) + 1]
  IN [Remember(p, "click") EXCEPT
        !.currentTheme = theme, !.stored = <<theme>>,
        !.dataTheme = <<applyTheme(theme, p.systemDark)>>,
        !.swaggerDark = applySwaggerDarkTheme(p, applyTheme(theme, p.systemDark))]

\* The listener of the media query, after the system scheme has changed.
systemThemeChanged(p) ==
  LET q == [Remember(p, "system") EXCEPT !.systemDark = ~p.systemDark]
  IN IF q.currentTheme = "system"
     THEN [q EXCEPT !.dataTheme = <<applyTheme("system", q.systemDark)>>,
                    !.swaggerDark =
                      applySwaggerDarkTheme(q, applyTheme("system", q.systemDark))]
     ELSE q

InitTheme ==
  /\ pc = "idle"
  /\ run = 0
  /\ todo = <<>>
  /\ specs = <<>>
  /\ walkRet = "nil"
  /\ result = NoResult
  /\ prev = <<>>
  /\ visited = <<>>
  /\ calls = <<>>
  /\ fs = [root |-> ServeRoot, rootErr |-> FALSE, badDirs |-> {}, files |-> <<>>]
  /\ nameIn = [title |-> <<>>, path |-> <<>>]
  /\ nameOut = <<>>
  /\ fmtIn = [path |-> <<>>, data |-> <<>>]
  /\ fmtOut = <<>>
  /\ held = <<>>
  /\ resp = NoResponse
  /\ \E st \in StoredThemes, dark \in BOOLEAN, styles \in BOOLEAN :
       page = [script |-> "theme", loaded |-> FALSE, stored |-> st,
               currentTheme |-> "", dataTheme |-> <<>>, systemDark |-> dark,
               hasSwaggerStyles |-> styles, swaggerDark |-> FALSE,
               event |-> "none",
               before |-> [currentTheme |-> "", dataTheme |-> <<>>]]

\* The page is loaded, or loaded again.
LoadTheme ==
  /\ page.script = "theme"
  /\ page' = loadTheme(page)
  /\ UNCHANGED <<fs, pc, run, todo, specs, walkRet, result, prev, visited, calls,
                 nameIn, nameOut, fmtIn, fmtOut, held, resp>>

\* A click on the theme toggle.
ClickTheme ==
  /\ page.script = "theme" /\ page.loaded
  /\ page' = cycleTheme(page)
  /\ UNCHANGED <<fs, pc, run, todo, specs, walkRet, result, prev, visited, calls,
                 nameIn, nameOut, fmtIn, fmtOut, held, resp>>

\* The system colour scheme changes while the page is open.
SystemThemeChange ==
  /\ page.script = "theme" /\ page.loaded
  /\ page' = systemThemeChanged(page)
  /\ UNCHANGED <<fs, pc, run, todo, specs, walkRet, result, prev, visited, calls,
                 nameIn, nameOut, fmtIn, fmtOut, held, resp>>

NextTheme == LoadTheme \/ ClickTheme \/ SystemThemeChange

SpecTheme == InitTheme /\ [][NextTheme]_vars

----------------------------------------------------------------------------
(* service-script.js in a service page.  The page state is a record:       *)
(* script ("service"), loaded, proxyStored and viewerStored (what          *)
(* localStorage holds under 'webswags-proxy-enabled' and                   *)
(* 'webswags-viewer-mode': <<>> for nothing, <<v>> for the string v),      *)
(* proxyEnabled, viewerMode, and the last request Swagger UI made: reqIn   *)
(* (its URL, <<>> when none), reqProxy (proxyEnabled at that moment) and   *)
(* reqOut (the URL the interceptor returned).                              *)

\* window.location.origin of the page.
PageOrigin == <<"h", "t", "t", "p", ":", "/", "/", "l", "o", "c", "a", "l", "h", "o", "s", "t", ":", "8", "0", "8", "5">>

\* The URLs of the requests Swagger UI makes.
RequestURLs ==
  { <<"h", "t", "t", "p", "s", ":", "/", "/", "a", "p", "i", ".", "e", "x", "a", "m", "p", "l", "e", ".", "c", "o", "m", "/", "u", "s", "e", "r", "s">>,
    <<"h", "t", "t", "p", "s", ":", "/", "/", "a", "p", "i", ".", "e", "x", "a", "m", "p", "l", "e", ".", "c", "o", "m", "/", "x", "?", "a", "=", "1", "&", "b", "=", "c", " ", "d">>,
    <<"h", "t", "t", "p", ":", "/", "/", "l", "o", "c", "a", "l", "h", "o", "s", "t", ":", "8", "0", "8", "5", "/", "a", "p", "i", "/", "s", "p", "e", "c", "s">>,
    <<"/", "a", "p", "i", "/", "s", "p", "e", "c", "s", "/", "S", "v", "c", "/", "s", "w", "a", "g", "g", "e", "r", ".", "y", "a", "m", "l">>,
    <<"h", "t", "t", "p", "s", ":", "/", "/", "a", "p", "i", ".", "e", "x", "a", "m", "p", "l", "e", ".", "c", "o", "m", "/", "p", "r", "o", "x", "y", "/", "u", "s", "e", "r", "s">>,
    <<"/", "/", "c", "d", "n", ".", "e", "x", "a", "m", "p", "l", "e", ".", "c", "o", "m", "/", "x">>,
    <<"h", "t", "t", "p", ":", "/", "/", "l", "o", "c", "a", "l", "h", "o", "s", "t", ":", "8", "0", "8", "5", ".", "e", "x", "a", "m", "p", "l", "e", ".", "c", "o", "m", "/", "x">>,
    <<"/", "p", "r", "o", "x", "y", "?", "u", "r", "l", "=", "h", "t", "t", "p", "s", "%", "3", "A", "%", "2", "F", "%", "2", "F", "a", "p", "i", ".", "e", "x", "a", "m", "p", "l", "e", ".", "c", "o", "m", "%", "2", "F", "u", "s", "e", "r", "s">> }

StoredProxy == { <<>>, <<"true">>, <<"false">>, <<"0">> }

StoredViewer == { <<>>, <<"redoc">> }

\* String.prototype.startsWith and includes.
startsWith(str, prefix) ==
  Len(prefix) <= Len(str) /\ SubSeq(str, 1, Len(prefix)) = prefix

includes(str, sub) ==
  \E i \in 1..(Len(str) - Len(sub) + 1) : SubSeq(str, i, i + Len(sub) - 1) = sub

\* encodeURIComponent on the characters of the model: letters, digits and
\* - _ . are kept, the others become their percent-encoded byte.
escapes ==
  [c \in {":", "/", "?", "=", "&", "%", " "} |->
     CASE c = ":" -> <<"%", "3", "A">>
       [] c = "/" -> <<"%", "2", "F">>
       [] c = "?" -> <<"%", "3", "F">>
       [] c = "=" -> <<"%", "3", "D">>
       [] c = "&" -> <<"%", "2", "6">>
       [] c = "%" -> <<"%", "2", "5">>
       [] c = " " -> <<"%", "2", "0">>]

RECURSIVE encodeURIComponent(_)
encodeURIComponent(str) ==
  IF str = <<>> THEN <<>>
  ELSE (IF str[1] \in DOMAIN escapes THEN escapes[str[1]] ELSE <<str[1]>>)
       \o encodeURIComponent(Tail(str))

requestInterceptor(proxyEnabled, url) ==
  IF /\ proxyEnabled
     /\ ~startsWith(url, PageOrigin)
     /\ ~startsWith(url, <<"/">>)
     /\ ~includes(url, <<"/", "p", "r", "o", "x", "y">>)
  THEN <<"/", "p", "r", "o", "x", "y", "?", "u", "r", "l", "=">> \o encodeURIComponent(url)
  ELSE url

\* The script runs on a page load.
loadService(p) ==
  [p EXCEPT !.loaded = TRUE,
            !.proxyEnabled = (p.proxyStored # <<"false">>),
            !.viewerMode = IF p.viewerStored \in {<<>>, <<"">>} THEN "swagger"
                           ELSE p.viewerStored[1],
            !.reqIn = <<>>, !.reqProxy = FALSE, !.reqOut = <<>>]

\* The click handler of the proxy toggle, before the reload prompt.
toggleProxy(p) ==
  [p EXCEPT !.proxyEnabled = ~p.proxyEnabled,
            !.proxyStored = <<IF ~p.proxyEnabled THEN "true" ELSE "false">>]

toggleViewer(p) ==
  LET mode == IF p.viewerMode = "swagger" THEN "redoc" ELSE "swagger"
  IN loadService([p EXCEPT !.viewerMode = mode, !.viewerStored = <<mode>>])

InitService ==
  /\ pc = "idle"
  /\ run = 0
  /\ todo = <<>>
  /\ specs = <<>>
  /\ walkRet = "nil"
  /\ result = NoResult
  /\ prev = <<>>
  /\ visited = <<>>
  /\ calls = <<>>
  /\ fs = [root |-> ServeRoot, rootErr |-> FALSE, badDirs |-> {}, files |-> <<>>]
  /\ nameIn = [title |-> <<>>, path |-> <<>>]
  /\ nameOut = <<>>
  /\ fmtIn = [path |-> <<>>, data |-> <<>>]
  /\ fmtOut = <<>>
  /\ held = <<>>
  /\ resp = NoResponse
  /\ \E ps \in StoredProxy, vs \in StoredViewer :
       page = [script |-> "service", loaded |-> FALSE, proxyStored |-> ps,
               viewerStored |-> vs, proxyEnabled |-> FALSE, viewerMode |-> "",
               reqIn |-> <<>>, reqProxy |-> FALSE, reqOut |-> <<>>]

\* The page is loaded, or loaded again.
LoadService ==
  /\ page.script = "service"
  /\ page' = loadService(page)
  /\ UNCHANGED <<fs, pc, run, todo, specs, walkRet, result, prev, visited, calls,
                 nameIn, nameOut, fmtIn, fmtOut, held, resp>>

\* A click on the proxy toggle; the user accepts the reload or not.
ClickProxyToggle ==
  /\ page.script = "service" /\ page.loaded
  /\ \E reload \in BOOLEAN :
       page' = IF reload THEN loadService(toggleProxy(page)) ELSE toggleProxy(page)
  /\ UNCHANGED <<fs, pc, run, todo, specs, walkRet, result, prev, visited, calls,
                 nameIn, nameOut, fmtIn, fmtOut, held, resp>>

\* A click on the viewer toggle: the mode is stored and the page reloads.
ClickViewerToggle ==
  /\ page.script = "service" /\ page.loaded
  /\ page' = toggleViewer(page)
  /\ UNCHANGED <<fs, pc, run, todo, specs, walkRet, result, prev, visited, calls,
                 nameIn, nameOut, fmtIn, fmtOut, held, resp>>

\* Swagger UI makes a request: the interceptor sees it.
SwaggerRequest ==
  /\ page.script = "service" /\ page.loaded
  /\ page.viewerMode = "swagger"
  /\ \E url \in RequestURLs :
       page' = [page EXCEPT !.reqIn = <<url>>, !.reqProxy = page.proxyEnabled,
                            !.reqOut = <<requestInterceptor(page.proxyEnabled, url)>>]
  /\ UNCHANGED <<fs, pc, run, todo, specs, walkRet, result, prev, visited, calls,
                 nameIn, nameOut, fmtIn, fmtOut, held, resp>>

NextService == LoadService \/ ClickProxyToggle \/ ClickViewerToggle \/ SwaggerRequest

SpecService == InitService /\ [][NextService]_vars

----------------------------------------------------------------------------
(* From a service page to its specification file: the page's script        *)
(* fetches the spec URL the server rendered, and the router of main takes  *)
(* the request to its handler.                                             *)

LinkPaths ==
  { << <<"s", "v", "c">>, <<"s", "p", "e", "c">>, <<"a", ".", "y", "a", "m", "l">> >>,
    << <<"s", "v", "c">>, <<"s", "p", "e", "c">>, <<"b", ".", "j", "s", "o", "n">> >>,
    << <<"q">>, <<"c", ".", "y", "a", "m", "l">> >> }

\* OpenAPI 3 documents without a title, titled "a b" and titled "a?".
LinkDocs ==
  { MkDoc(<<"o", "p">>, V303, <<>>, <<>>),
    MkDoc(<<"o", "p">>, V303, <<>>, <<[NoInfo EXCEPT !.Title = <<"a", " ", "b">>]>>),
    MkDoc(<<"o", "p">>, V303, <<>>, <<[NoInfo EXCEPT !.Title = <<"a", "?">>]>>) }

LinkTrees ==
  { [root |-> ServeRoot, rootErr |-> FALSE, badDirs |-> {},
     files |-> [p \in P |-> [kind |-> "regular", lstatErr |-> FALSE,
                             readErr |-> FALSE, doc |-> f[p]]]] :
      P \in SUBSET LinkPaths, f \in [LinkPaths -> LinkDocs] }

\* The part of a string before the first of the given characters.
RECURSIVE Before(_, _)
Before(str, stops) ==
  IF str = <<>> \/ str[1] \in stops THEN <<>>
  ELSE <<str[1]>> \o Before(Tail(str), stops)

\* The path a client requests for a URL reference: the fragment and the
\* query are cut off, and a space of the path is sent as %20.
RECURSIVE encodePath(_)
encodePath(path) ==
  IF path = <<>> THEN <<>>
  ELSE (IF path[1] = " " THEN escapes[" "] ELSE <<path[1]>>) \o encodePath(Tail(path))

requestPath(url) == encodePath(Before(Before(url, {"#"}), {"?"}))

\* The URL.Path of the request: the requested path with its percent-encoded
\* bytes decoded.
RECURSIVE unescape(_)
unescape(str) ==
  IF str = <<>> THEN <<>>
  ELSE IF /\ str[1] = "%" /\ Len(str) >= 3
          /\ \E c \in DOMAIN escapes : escapes[c] = SubSeq(str, 1, 3)
       THEN <<CHOOSE c \in DOMAIN escapes : escapes[c] = SubSeq(str, 1, 3)>>
            \o unescape(SubSeq(str, 4, Len(str)))
       ELSE <<str[1]>> \o unescape(Tail(str))

\* The {service} variable of the routes /api/specs/{service}/swagger.yaml
\* and /api/specs/{service}/swagger.json on a path: one non-empty segment,
\* <<>> when the path matches neither route.
serviceVar(path) ==
  LET prefix == <<"/", "a", "p", "i", "/", "s", "p", "e", "c", "s", "/">>
      rest   == SubSeq(path, Len(prefix) + 1, Len(path))
      seg    == Before(rest, {"/"})
      file   == SubSeq(rest, Len(seg) + 1, Len(rest))
  IN IF /\ startsWith(path, prefix)
        /\ seg # <<>>
        /\ file \in { <<"/", "s", "w", "a", "g", "g", "e", "r", ".", "y", "a", "m", "l">>, <<"/", "s", "w", "a", "g", "g", "e", "r", ".", "j", "s", "o", "n">> }
     THEN <<seg>>
     ELSE <<>>

\* The router on a GET of a URL reference: the raw-file handler when one of
\* its two routes matches, the router's 404 otherwise.
routeFile(list, url, tree) ==
  LET path == unescape(requestPath(url))
      muxVars == serviceVar(path)
  IN IF muxVars = <<>>
     THEN [NoResponse EXCEPT !.route = "notfound", !.status = 404,
                             !.contentType = TextPlain]
     ELSE handleSwaggerFile(list, muxVars[1], path, tree)

InitLink ==
  /\ InitCommon
  /\ fs \in LinkTrees

\* GET /service/{service} with the Service of a record of the list.
OpenService ==
  /\ pc = "serving"
  /\ \E i \in DOMAIN held :
       resp' = [handleServiceSwagger(held, held[i].Service)
                  EXCEPT !.request = <<held[i].Service>>]
  /\ UNCHANGED <<fs, pc, run, todo, specs, walkRet, result, prev, visited, calls,
                 nameIn, nameOut, fmtIn, fmtOut, held, page>>

\* The service page loads its specification from the URL it was given.
LoadSpec ==
  /\ pc = "serving"
  /\ resp.route = "service"
  /\ resp' = [routeFile(held, resp.specURL, fs)
                EXCEPT !.request = <<resp.request[1], resp.specURL>>]
  /\ UNCHANGED <<fs, pc, run, todo, specs, walkRet, result, prev, visited, calls,
                 nameIn, nameOut, fmtIn, fmtOut, held, page>>

NextLink ==
  \/ MainDiscover \/ WalkFn \/ Return \/ Listen
  \/ OpenService \/ LoadSpec

SpecLink == InitLink /\ [][NextLink]_vars

----------------------------------------------------------------------------
(* Properties.                                                             *)

\* Vocabulary of the properties, stated without the operators of the model.
Blank(s) == \A i \in 1..Len(s) : s[i] \in {" ", "\t", "\n", "\r"}

NoOuterSpace(s) ==
  s = <<>> \/ (s[1] \notin {" ", "\t", "\n", "\r"} /\ s[Len(s)] \notin {" ", "\t", "\n", "\r"})

\* a <= b byte-wise: a is a prefix of b, or the first difference is smaller in a.
BytesLeq(a, b) ==
  \E k \in 0..Len(a) :
    /\ k <= Len(b)
    /\ \A i \in 1..k : a[i] = b[i]
    /\ \/ k = Len(a)
       \/ k < Len(b) /\ Code(a[k + 1]) < Code(b[k + 1])

\* The records held at the moment: accumulated or returned.
Records ==
  { specs[i] : i \in DOMAIN specs } \cup { result.specs[i] : i \in DOMAIN result.specs }

RecordsAt(path) == { r \in Records : r.Path = path }

HasSpecExt(path) ==
  \E ext \in {ExtYAML, ExtYML, ExtJSON} : HasSuffix(ToLower(path), ext)

SwaggerCalls == {"json.Unmarshal", "yaml.YAMLToJSON"}

\* The files of the tree that Walk can reach: the root can be examined and no
\* directory above the file fails to list.
Reachable(p) ==
  /\ ~fs.rootErr
  /\ \A d \in fs.badDirs : ~IsPrefix(d, p)

\* C1: the list DiscoverSwaggerSpecs returns is sorted ascending by Service,
\* byte-wise: every adjacent pair (a, b) has a.Service <= b.Service.
C1_SortedByService ==
  pc = "returned" =>
    \A i \in 1..(Len(result.specs) - 1) :
      BytesLeq(result.specs[i].Service, result.specs[i + 1].Service)

\* A returned list of distinct services that the sort had to reorder.
C1_Witness ==
  /\ pc = "returned"
  /\ Len(result.specs) >= 2
  /\ result.specs # specs
  /\ result.specs[1].Service # result.specs[2].Service

\* C2: every record has exactly one of the two views: OpenAPI3Doc or
\* Swagger2Doc, never both and never neither.
C2_ExactlyOneView ==
  \A r \in Records : (r.OpenAPI3Doc # <<>>) # (r.Swagger2Doc # <<>>)

\* A returned record of a document that both parsers would accept.
C2_Witness ==
  /\ pc = "returned"
  /\ \E r \in Records :
       /\ ~r.Raw[1].load3Err /\ ~Blank(r.Raw[1].openapi)
       /\ ~r.Raw[1].unmarshal2Err /\ ~r.Raw[1].yamlErr /\ ~Blank(r.Raw[1].swagger)

C4_RootErrorPropagated ==
  (pc = "returned" /\ fs.rootErr) => (result.err /\ result.specs = <<>>)

\* C5: deriveName returns a non-empty string for every non-empty path and
\* every title.
C5_NameNonEmpty ==
  (pc = "named" /\ nameIn.path # <<>>) => nameOut[1] # <<>>

\* C6: a second run of DiscoverSwaggerSpecs over the unchanged tree returns
\* the list the first run returned: same records, same order, same fields.
C6_Idempotent ==
  (pc = "returned" /\ prev # <<>>) => result = prev[1]

\* A second run has returned a list in which two records share a Service.
C6_Witness ==
  /\ pc = "returned"
  /\ prev # <<>>
  /\ \E i, j \in DOMAIN result.specs :
       i < j /\ result.specs[i].Service = result.specs[j].Service

\* C7: the OpenAPI 3 load comes first and short-circuits: a file whose load
\* succeeds with a non-blank marker is classified OpenAPI 3 without any
\* Swagger 2.0 call, and a Swagger 2.0 call on a file comes only after the
\* OpenAPI 3 load of that file, which did not accept it.
C7_OpenAPI3First ==
  \A j \in DOMAIN calls :
    LET d == fs.files[calls[j].segs].doc IN
    /\ (calls[j].call = "oas3.LoadFromData" /\ ~d.load3Err /\ ~Blank(d.openapi)) =>
         /\ \A r \in RecordsAt(calls[j].path) : r.OpenAPI3Doc # <<>>
         /\ RecordsAt(calls[j].path) # {}
         /\ \A k \in DOMAIN calls :
              calls[k].path = calls[j].path => calls[k].call \notin SwaggerCalls
    /\ calls[j].call \in SwaggerCalls =>
         /\ \E i \in 1..(j - 1) :
              calls[i].path = calls[j].path /\ calls[i].call = "oas3.LoadFromData"
         /\ d.load3Err \/ Blank(d.openapi)

\* A document carrying both markers was classified OpenAPI 3.
C7_Witness ==
  \E r \in Records :
    /\ r.OpenAPI3Doc # <<>>
    /\ ~Blank(r.Raw[1].swagger) /\ ~r.Raw[1].unmarshal2Err /\ ~r.Raw[1].yamlErr

\* C8: a step accepts a file only when its version marker is non-blank, and
\* a file that neither step accepts yields no record.
C8_MarkerRequired ==
  /\ \A r \in Records :
       /\ r.OpenAPI3Doc # <<>> => (~r.Raw[1].load3Err /\ ~Blank(r.Raw[1].openapi))
       /\ r.Swagger2Doc # <<>> => ~Blank(r.Raw[1].swagger)
  /\ \A j \in DOMAIN calls :
       LET d == fs.files[calls[j].segs].doc IN
       (calls[j].call = "os.ReadFile" /\ Blank(d.openapi) /\ Blank(d.swagger)) =>
         RecordsAt(calls[j].path) = {}

\* A file that loads as OpenAPI 3 with a whitespace-only marker was parsed
\* and rejected.
C8_Witness ==
  /\ pc = "returned"
  /\ result.specs = <<>>
  /\ \E j \in DOMAIN calls :
       LET d == fs.files[calls[j].segs].doc IN
       /\ calls[j].call = "oas3.LoadFromData"
       /\ ~d.load3Err /\ d.openapi # <<>> /\ Blank(d.openapi)
       /\ ~d.unmarshal2Err /\ ~d.yamlErr /\ d.swagger # <<>> /\ Blank(d.swagger)

\* C9: in every record the projected title, version and description, and the
\* record's own Title, Version and Description, have no leading or trailing
\* white space, under either schema.
C9_InfoTrimmed ==
  \A r \in Records :
    /\ NoOuterSpace(r.Title) /\ NoOuterSpace(r.Version) /\ NoOuterSpace(r.Description)
    /\ \A v \in {r.OpenAPI3Doc, r.Swagger2Doc} :
         v # <<>> =>
           /\ NoOuterSpace(v[1].Info.Title)
           /\ NoOuterSpace(v[1].Info.Version)
           /\ NoOuterSpace(v[1].Info.Description)

\* A Swagger 2.0 record of a document whose title, version and description
\* all carry outer white space.
C9_Witness ==
  \E r \in Records :
    /\ r.Swagger2Doc # <<>>
    /\ r.Raw[1].info # <<>>
    /\ ~NoOuterSpace(r.Raw[1].info[1].Title)
    /\ ~NoOuterSpace(r.Raw[1].info[1].Version)
    /\ ~NoOuterSpace(r.Raw[1].info[1].Description)

\* C10 as claimed: a parse is attempted only on regular files with a spec
\* extension, and every record's path is such a file.
C10_OnlyRegularFiles ==
  /\ \A j \in DOMAIN calls :
       /\ calls[j].segs \in DOMAIN fs.files
       /\ fs.files[calls[j].segs].kind = "regular"
       /\ HasSpecExt(calls[j].path)
  /\ \A r \in Records :
       \E p \in DOMAIN fs.files :
         /\ PathOf(fs.root, p) = r.Path
         /\ fs.files[p].kind = "regular"

\* C10 amended: a parse is attempted only on entries that are not
\* directories and carry the extension .yaml, .yml or .json in any letter
\* case; directories and other extensions are never opened, and every
\* record's path is such a non-directory entry.
C10_OnlyNonDirectories ==
  /\ \A j \in DOMAIN calls :
       /\ calls[j].segs \in DOMAIN fs.files
       /\ calls[j].segs \notin DirsOf(fs.files)
       /\ HasSpecExt(calls[j].path)
  /\ \A r \in Records :
       \E p \in DOMAIN fs.files :
         /\ PathOf(fs.root, p) = r.Path
         /\ p \notin DirsOf(fs.files)
         /\ HasSpecExt(r.Path)

\* The walk is over: a directory named like a spec file was visited and not
\* opened, and a file whose extension is in upper case was read.
C10_Witness ==
  /\ pc = "returned"
  /\ \E i \in DOMAIN visited :
       visited[i].segs \in DirsOf(fs.files) /\ HasSpecExt(visited[i].path)
  /\ \E j \in DOMAIN calls :
       /\ calls[j].call = "os.ReadFile"
       /\ ~HasSuffix(calls[j].path, ExtYAML)
       /\ ~HasSuffix(calls[j].path, ExtYML)
       /\ ~HasSuffix(calls[j].path, ExtJSON)

\* C11: in every record Service equals Name, and both are the name derived
\* from the record's trimmed title and its full path, whichever branch built
\* the record.
C11_ServiceEqualsName ==
  \A r \in Records :
    /\ r.Service = r.Name
    /\ r.Name = deriveName(r.Title, r.Path)

\* A Swagger 2.0 record without a title, in a directory, whose name is not
\* the one its file name alone would give.
C11_Witness ==
  /\ pc = "returned"
  /\ \E r \in Records :
       /\ r.Swagger2Doc # <<>> /\ r.OpenAPI3Doc = <<>>
       /\ r.Title = <<>>
       /\ r.Path # r.FileName
       /\ r.Service # <<>>
       /\ r.Service # deriveName(<<>>, r.FileName)

\* Vocabulary of the naming properties: the marker directories and the
\* generic directories as the specification lists them, the segments of the
\* cleaned path, and the marker positions that qualify.
MarkerNames ==
  { <<"s", "p", "e", "c">>, <<"s", "p", "e", "c", "s">>, <<"a", "p", "i">>, <<"a", "p", "i", "s">>, <<"s", "w", "a", "g", "g", "e", "r">>, <<"o", "p", "e", "n", "a", "p", "i">>, <<"o", "a", "s">> }

GenericNames ==
  { <<"d", "o", "c", "s">>, <<"d", "o", "c">>, <<"d", "o", "c", "u", "m", "e", "n", "t", "a", "t", "i", "o", "n">>, <<"s", "p", "e", "c", "i", "f", "i", "c", "a", "t", "i", "o", "n", "s">>, <<"s", "p", "e", "c", "s">>, <<>>, <<".">>, <<"/">> }

NameParts == Split(Clean(nameIn.path), "/")

Qualifying ==
  { i \in 2..Len(NameParts) :
      /\ ToLower(NameParts[i]) \in MarkerNames
      /\ ToLower(NameParts[i - 1]) \notin GenericNames }

Rightmost(S) == CHOOSE i \in S : \A j \in S : j <= i

ParentUsable ==
  /\ Len(NameParts) >= 2
  /\ ToLower(NameParts[Len(NameParts) - 1]) \notin GenericNames

\* The file name up to its last dot (whole when it has none).
Stem(name) ==
  LET dots == { i \in 1..Len(name) : name[i] = "." }
  IN IF dots = {} THEN name ELSE SubSeq(name, 1, Rightmost(dots) - 1)

Named(title, path, out) ==
  (pc = "named" /\ nameIn.title = title /\ nameIn.path = path) => nameOut[1] = out

C14_ParentDirectory ==
  /\ (pc = "named" /\ Blank(nameIn.title) /\ Qualifying = {} /\ ParentUsable) =>
        nameOut[1] = formatServiceName(NameParts[Len(NameParts) - 1])
  /\ Named(<<>>, <<"d", "o", "c", "s", "/", "p", "e", "t", "s", "t", "o", "r", "e", "/", "s", "w", "a", "g", "g", "e", "r", ".", "j", "s", "o", "n">>, <<"P", "e", "t", "s", "t", "o", "r", "e">>)
  /\ Named(<<>>, <<"a", "p", "i", "s", "/", "u", "s", "e", "r", "-", "s", "e", "r", "v", "i", "c", "e", "/", "o", "p", "e", "n", "a", "p", "i", ".", "y", "a", "m", "l">>, <<"U", "s", "e", "r", " ", "S", "e", "r", "v", "i", "c", "e">>)

\* The parent directory was used and its hyphen became a space.
C14_Witness ==
  /\ pc = "named"
  /\ Blank(nameIn.title) /\ Qualifying = {} /\ ParentUsable
  /\ nameIn.path = <<"a", "p", "i", "s", "/", "u", "s", "e", "r", "-", "s", "e", "r", "v", "i", "c", "e", "/", "o", "p", "e", "n", "a", "p", "i", ".", "y", "a", "m", "l">>
  /\ nameOut[1] = <<"U", "s", "e", "r", " ", "S", "e", "r", "v", "i", "c", "e">>

\* C15: with a blank title, no qualifying marker and a parent directory that
\* is absent or generic, the name is the formatted file name without its
\* extension.
C15_FileNameFallback ==
  /\ (pc = "named" /\ Blank(nameIn.title) /\ Qualifying = {} /\ ~ParentUsable) =>
        nameOut[1] = formatServiceName(Stem(NameParts[Len(NameParts)]))
  /\ Named(<<>>, <<"o", "p", "e", "n", "a", "p", "i", ".", "y", "a", "m", "l">>, <<"O", "p", "e", "n", "a", "p", "i">>)
  /\ Named(<<>>, <<"d", "o", "c", "s", "/", "o", "p", "e", "n", "a", "p", "i", ".", "y", "a", "m", "l">>, <<"O", "p", "e", "n", "a", "p", "i">>)

\* The fallback was taken under a generic parent directory.
C15_Witness ==
  /\ pc = "named"
  /\ Blank(nameIn.title) /\ Qualifying = {} /\ ~ParentUsable
  /\ Len(NameParts) >= 2
  /\ nameOut[1] = <<"O", "p", "e", "n", "a", "p", "i">>

\* Vocabulary of the format property: the extension of a path is the text
\* from the last dot of its last element, and the content is read past its
\* leading spaces, tabs, CRs and LFs.
ExtensionOf(path) ==
  LET seps  == { i \in 1..Len(path) : path[i] = "/" }
      start == IF seps = {} THEN 0 ELSE Rightmost(seps)
      dots  == { i \in (start + 1)..Len(path) : path[i] = "." }
  IN IF dots = {} THEN <<>> ELSE ToLower(SubSeq(path, Rightmost(dots), Len(path)))

StartsAsJSON(data) ==
  \E i \in 1..Len(data) :
    /\ data[i] \in {"{", "["}
    /\ \A j \in 1..(i - 1) : data[j] \in {" ", "\t", "\r", "\n"}

\* C16: detectFormatFromExtOrContent always answers "json" or "yaml": "json"
\* for the extension .json, "yaml" for .yaml and .yml, in any letter case and
\* whatever the content; for any other extension "json" exactly when the
\* content starts, past leading blanks, with '{' or '[', and "yaml" otherwise.
C16_FormatDetection ==
  pc = "formatted" =>
    /\ Len(fmtOut) = 1
    /\ fmtOut[1] \in {<<"j", "s", "o", "n">>, <<"y", "a", "m", "l">>}
    /\ ExtensionOf(fmtIn.path) = <<".", "j", "s", "o", "n">> => fmtOut[1] = <<"j", "s", "o", "n">>
    /\ ExtensionOf(fmtIn.path) \in {<<".", "y", "a", "m", "l">>, <<".", "y", "m", "l">>} => fmtOut[1] = <<"y", "a", "m", "l">>
    /\ ExtensionOf(fmtIn.path) \notin {<<".", "j", "s", "o", "n">>, <<".", "y", "a", "m", "l">>, <<".", "y", "m", "l">>} =>
         (fmtOut[1] = <<"j", "s", "o", "n">> <=> StartsAsJSON(fmtIn.data))

\* An upper-case .JSON path with content that is not JSON was classified
\* "json" (the extension decided against the content).
C16_Witness ==
  /\ pc = "formatted"
  /\ fmtIn.path # ToLower(fmtIn.path)
  /\ ExtensionOf(fmtIn.path) = <<".", "j", "s", "o", "n">>
  /\ ~StartsAsJSON(fmtIn.data)
  /\ fmtOut = <<<<"j", "s", "o", "n">>>>

\* Vocabulary of the scenario properties: the files of the tree that hold a
\* given content, and the records built from a file.
Holding(d) == { p \in DOMAIN fs.files : fs.files[p].doc = d /\ ~fs.files[p].readErr }

RecordsOf(p) == { r \in Records : r.FileName = p[Len(p)] }

IsOpenAPI3Record(r) ==
  r.OpenAPI3Doc # <<>> /\ r.Swagger2Doc = <<>> /\ r.OpenAPIVersion = <<"3", ".", "0", ".", "3">>

IsSwagger2Record(r) == r.Swagger2Doc # <<>> /\ r.OpenAPI3Doc = <<>>

\* The file's content went through yaml.YAMLToJSON and then json.Unmarshal.
ConvertedFirst(p) ==
  \E j, k \in DOMAIN calls :
    /\ j < k
    /\ calls[j].segs = p /\ calls[j].call = "yaml.YAMLToJSON"
    /\ calls[k].segs = p /\ calls[k].call = "json.Unmarshal"

\* C17 as stated: any discovered file holding the JSON object of scenario E
\* yields a record with Format "json", an OpenAPI 3 view only and
\* OpenAPIVersion "3.0.3".
C17_JSONContentIsJSON ==
  pc = "returned" =>
    \A p \in Holding(DocE) :
      /\ RecordsOf(p) # {}
      /\ \A r \in RecordsOf(p) : r.Format = <<"j", "s", "o", "n">> /\ IsOpenAPI3Record(r)

\* C17: a discovered file holding the JSON object of scenario E yields a
\* record with an OpenAPI 3 view only and OpenAPIVersion "3.0.3"; its Format
\* is "json" when the file's extension is .json (any case) and "yaml" when
\* it is .yaml or .yml, the content notwithstanding.
C17_ExtensionDecidesFormat ==
  pc = "returned" =>
    \A p \in Holding(DocE) :
      /\ RecordsOf(p) # {}
      /\ \A r \in RecordsOf(p) :
           /\ IsOpenAPI3Record(r)
           /\ ExtensionOf(p[Len(p)]) = <<".", "j", "s", "o", "n">> => r.Format = <<"j", "s", "o", "n">>
           /\ ExtensionOf(p[Len(p)]) \in {<<".", "y", "a", "m", "l">>, <<".", "y", "m", "l">>} => r.Format = <<"y", "a", "m", "l">>

\* The JSON object of scenario E was discovered in a file named *.yaml and
\* its record says "yaml".
C17_Witness ==
  /\ pc = "returned"
  /\ \E p \in Holding(DocE) :
       /\ ExtensionOf(p[Len(p)]) = <<".", "y", "a", "m", "l">>
       /\ \E r \in RecordsOf(p) : r.Format = <<"y", "a", "m", "l">> /\ IsOpenAPI3Record(r)

\* C18 as stated: any discovered file holding YAML with swagger: "2.0" and
\* no openapi key yields a record with Format "yaml" and a Swagger 2.0 view
\* only, the content being converted to JSON before the Swagger 2.0 parse.
C18_YAMLContentIsYAML ==
  pc = "returned" =>
    \A l \in BOOLEAN : \A p \in Holding(DocF(l)) :
      /\ RecordsOf(p) # {}
      /\ \A r \in RecordsOf(p) : r.Format = <<"y", "a", "m", "l">> /\ IsSwagger2Record(r)
      /\ ConvertedFirst(p)

\* C18: a discovered file holding YAML with swagger: "2.0" and no openapi
\* key yields a record with a Swagger 2.0 view only, the content being
\* converted to JSON before the Swagger 2.0 parse; its Format is "yaml" when
\* the file's extension is .yaml or .yml and "json" when it is .json.
C18_YAMLConvertedFirst ==
  pc = "returned" =>
    \A l \in BOOLEAN : \A p \in Holding(DocF(l)) :
      /\ RecordsOf(p) # {}
      /\ \A r \in RecordsOf(p) :
           /\ IsSwagger2Record(r)
           /\ ExtensionOf(p[Len(p)]) \in {<<".", "y", "a", "m", "l">>, <<".", "y", "m", "l">>} => r.Format = <<"y", "a", "m", "l">>
           /\ ExtensionOf(p[Len(p)]) = <<".", "j", "s", "o", "n">> => r.Format = <<"j", "s", "o", "n">>
      /\ ConvertedFirst(p)

\* The YAML of scenario F was discovered in a file named *.JSON: it was
\* converted and parsed as Swagger 2.0, and its record says "json".
C18_Witness ==
  /\ pc = "returned"
  /\ \E l \in BOOLEAN : \E p \in Holding(DocF(l)) :
       /\ ExtensionOf(p[Len(p)]) = <<".", "j", "s", "o", "n">>
       /\ ConvertedFirst(p)
       /\ \E r \in RecordsOf(p) : r.Format = <<"j", "s", "o", "n">> /\ IsSwagger2Record(r)

\* C19: the list is built once at startup and never changes: while the
\* server runs, whatever requests were answered and however the tree has
\* changed, discovery has run exactly once, the handlers hold the list that
\* run returned, and / and /api/specs answer with that list.
C19_ListBuiltOnce ==
  pc = "serving" =>
    /\ run = 1
    /\ held = result.specs
    /\ resp.route = "index" => resp.list = result.specs
    /\ resp.route = "specs" => resp.list = [i \in DOMAIN result.specs |-> encodeSpec(result.specs[i])]

\* /api/specs answered with the startup list although the tree has changed
\* since and a new discovery would return another list.
C19_Witness ==
  /\ pc = "serving"
  /\ resp.route = "specs"
  /\ resp.list # <<>>
  /\ DiscoverSwaggerSpecs(fs).specs # held

\* Vocabulary of the raw-file property: the positions of the held list that
\* match the request answered.
FileMatches ==
  { i \in DOMAIN held :
      held[i].Service = resp.request[1] /\ held[i].Format = resp.request[2] }

FirstMatch == CHOOSE i \in FileMatches : \A j \in FileMatches : i <= j

\* C20: a raw-file request for a service and a format is answered 404,
\* without any file, when no record has both that Service and that Format;
\* otherwise the file handed to http.ServeFile is the Path of the first such
\* record in list order and, when it is served, the content type is text/yaml
\* for swagger.yaml and application/json for swagger.json.
C20_FirstMatchServed ==
  (pc = "serving" /\ resp.route = "file") =>
    IF FileMatches = {}
    THEN resp.status = 404 /\ resp.file = <<>>
    ELSE /\ resp.file = <<held[FirstMatch].Path>>
         /\ resp.status \in {200, 404}
         /\ resp.status = 200 =>
              /\ resp.request[2] = <<"y", "a", "m", "l">> => resp.contentType = <<"t", "e", "x", "t", "/", "y", "a", "m", "l">>
              /\ resp.request[2] = <<"j", "s", "o", "n">> => resp.contentType = <<"a", "p", "p", "l", "i", "c", "a", "t", "i", "o", "n", "/", "j", "s", "o", "n">>

\* A file was served for a service whose first record in the list has the
\* other format.
C20_Witness ==
  /\ pc = "serving"
  /\ resp.route = "file"
  /\ resp.status = 200
  /\ FileMatches # {}
  /\ \E j \in DOMAIN held :
       /\ j < FirstMatch
       /\ held[j].Service = resp.request[1]
       /\ held[j].Format # resp.request[2]

\* Vocabulary of the /proxy properties: the request answered last.
ProxyAnswered == pc \in {"serving", "proxying"} /\ resp.route = "proxy"

ProxyRequest == resp.request[1]

\* C21: every answer of /proxy carries Access-Control-Allow-Origin: *,
\* whatever the method and the outcome.
C21_ProxyAlwaysAllowsOrigin ==
  ProxyAnswered => resp.allowOrigin

\* C25: /proxy decides in a fixed order: without a url parameter the answer
\* is 400 and nothing goes upstream, whatever the method; with one, OPTIONS
\* is answered 200 with the CORS headers and Access-Control-Max-Age and
\* nothing goes upstream; only the other requests are forwarded.
C25_ProxyDecisionOrder ==
  ProxyAnswered =>
    /\ ~ProxyRequest.hasURL =>
         resp.status = 400 /\ ~resp.forwarded /\ resp.upstreamReq = <<>>
    /\ (ProxyRequest.hasURL /\ ProxyRequest.method = "OPTIONS") =>
         /\ resp.status = 200
         /\ resp.allowOrigin /\ resp.allowMethods /\ resp.allowHeaders
         /\ resp.maxAge # <<>>
         /\ ~resp.forwarded /\ resp.upstreamReq = <<>>
    /\ (resp.forwarded \/ resp.upstreamReq # <<>>) =>
         ProxyRequest.hasURL /\ ProxyRequest.method # "OPTIONS"

\* An OPTIONS request without a url parameter was answered 400.
C25_Witness ==
  /\ ProxyAnswered
  /\ ~ProxyRequest.hasURL /\ ProxyRequest.method = "OPTIONS"
  /\ resp.status = 400

\* C28: a forwarded request goes to the URL of the url parameter with that
\* URL's own query parameters, the other query parameters of the incoming
\* request being added to them.
C28_TargetQueryKept ==
  (ProxyAnswered /\ resp.forwarded) =>
    /\ resp.upstreamReq[1].base = ProxyRequest.target.base
    /\ resp.upstreamReq[1].query = ProxyRequest.target.query \cup ProxyRequest.extraQuery

\* Vocabulary of the theme properties.
ThemeLoaded == page.script = "theme" /\ page.loaded

NextInCycle(t) ==
  CASE t = "light" -> "dark" [] t = "dark" -> "system" [] t = "system" -> "light"

\* C22: a click moves the preference one step along light -> dark -> system
\* -> light and stores it; at any time the stored value is the one a reload
\* turns back into the current preference.
C22_ClickCyclesAndPersists ==
  ThemeLoaded =>
    /\ page.event = "click" =>
         /\ page.before.currentTheme \in {"light", "dark", "system"} =>
              page.currentTheme = NextInCycle(page.before.currentTheme)
         /\ page.stored = <<page.currentTheme>>
    /\ page.currentTheme = (IF page.stored \in {<<>>, <<"">>} THEN "system" ELSE page.stored[1])

\* A click took the preference from system back to light and stored it.
C22_Witness ==
  /\ ThemeLoaded
  /\ page.event = "click"
  /\ page.before.currentTheme = "system"
  /\ page.currentTheme = "light"
  /\ page.stored = <<"light">>

\* C29: once the script has run, data-theme is 'light' or 'dark' whatever
\* was stored and whatever events came; a system colour-scheme change
\* leaves data-theme alone unless the preference is 'system'.
C29_DataThemeLightOrDark ==
  ThemeLoaded =>
    /\ page.dataTheme \in {<<"light">>, <<"dark">>}
    /\ (page.event = "system" /\ page.currentTheme # "system") =>
         page.dataTheme = page.before.dataTheme

\* Vocabulary of the interceptor property: the origin a request URL leads
\* to (the page's own for a relative URL, the page's scheme with the given
\* authority for a //authority URL), and the requests that leave it.
AuthorityEnd(url, from) ==
  LET stops == { i \in from..Len(url) : url[i] \in {"/", "?", "#"} }
  IN IF stops = {} THEN Len(url) ELSE (CHOOSE i \in stops : \A j \in stops : i <= j) - 1

OriginOf(url) ==
  LET marks == { i \in 1..(Len(url) - 2) : SubSeq(url, i, i + 2) = <<":", "/", "/">> }
  IN IF Len(url) >= 2 /\ SubSeq(url, 1, 2) = <<"/", "/">>
     THEN <<"h", "t", "t", "p", ":">> \o SubSeq(url, 1, AuthorityEnd(url, 3))
     ELSE IF marks # {} /\ url[1] # "/"
     THEN LET m == CHOOSE i \in marks : \A j \in marks : i <= j
          IN SubSeq(url, 1, AuthorityEnd(url, m + 3))
     ELSE <<"h", "t", "t", "p", ":", "/", "/", "l", "o", "c", "a", "l", "h", "o", "s", "t", ":", "8", "0", "8", "5">>

External(url) == OriginOf(url) # <<"h", "t", "t", "p", ":", "/", "/", "l", "o", "c", "a", "l", "h", "o", "s", "t", ":", "8", "0", "8", "5">>

ServiceLoaded == page.script = "service" /\ page.loaded

\* C23: with the proxy toggle ON, a request of Swagger UI to a URL outside
\* the page's origin leaves the interceptor as /proxy?url=<the URL,
\* URL-encoded>; with the toggle OFF the URL is left as it is.
C23_ExternalRequestsProxied ==
  (ServiceLoaded /\ page.reqIn # <<>>) =>
    /\ (page.reqProxy /\ External(page.reqIn[1])) =>
         page.reqOut[1] = <<"/", "p", "r", "o", "x", "y", "?", "u", "r", "l", "=">> \o encodeURIComponent(page.reqIn[1])
    /\ ~page.reqProxy => page.reqOut = page.reqIn

\* C24: with a blank title, a file directly inside a top-level absolute
\* directory is named by the file-name fallback: deriveName("",
\* "/tmp/my-api.yaml") is "My Api", and likewise for every absolute path of
\* one directory and one file.
C24_TopLevelAbsoluteFallback ==
  /\ Named(<<>>, <<"/", "t", "m", "p", "/", "m", "y", "-", "a", "p", "i", ".", "y", "a", "m", "l">>, <<"M", "y", " ", "A", "p", "i">>)
  /\ (/\ pc = "named" /\ Blank(nameIn.title)
      /\ Len(NameParts) = 3 /\ NameParts[1] = <<>>
      /\ ToLower(NameParts[2]) \notin MarkerNames
      /\ ToLower(NameParts[3]) \notin MarkerNames) =>
        nameOut[1] = formatServiceName(Stem(NameParts[3]))

\* C26: in the earlier deriveName, a blank title with "spec" as the first
\* path segment (as in "spec/x.yaml") ends in a return, not a failure, and
\* the name returned is the title-cased file name without its extension.
C26_LeadingSpecFallsBack ==
  (/\ pc # "name0"
   /\ Blank(nameIn.title)
   /\ NameParts[1] = <<"s", "p", "e", "c">>
   /\ Len(NameParts) >= 2) =>
     /\ pc = "named0"
     /\ nameOut = <<TitleCase(Stem(NameParts[Len(NameParts)]))>>

\* C27: in every record the version marker, the view and the canonical
\* document of a schema are present together or absent together, for
\* OpenAPI 3 and for Swagger 2.0 alike, and a marker that is present equals
\* the version field of its view and has no surrounding white space.
C27_MarkersViewsDocsAgree ==
  \A r \in Records :
    /\ (r.OpenAPIVersion # <<>>) <=> (r.OpenAPI3Doc # <<>>)
    /\ (r.OpenAPI3Doc # <<>>) <=> (r.DocV3 # <<>>)
    /\ (r.SwaggerVersion # <<>>) <=> (r.Swagger2Doc # <<>>)
    /\ (r.Swagger2Doc # <<>>) <=> (r.DocV2 # <<>>)
    /\ r.OpenAPIVersion # <<>> =>
         r.OpenAPIVersion = r.OpenAPI3Doc[1].OpenAPI /\ NoOuterSpace(r.OpenAPIVersion)
    /\ r.SwaggerVersion # <<>> =>
         r.SwaggerVersion = r.Swagger2Doc[1].Swagger /\ NoOuterSpace(r.SwaggerVersion)

\* An OpenAPI 3 record of a document whose marker carries outer white space
\* and which also carries a Swagger marker: only the OpenAPI 3 side is set.
C27_Witness ==
  \E r \in Records :
    /\ r.OpenAPIVersion = V303
    /\ r.DocV3 # <<>> /\ r.DocV3[1].openapi # V303
    /\ r.DocV3[1].swagger # <<>> /\ ~Blank(r.DocV3[1].swagger)
    /\ r.SwaggerVersion = <<>> /\ r.Swagger2Doc = <<>> /\ r.DocV2 = <<>>

\* The specification of a service page was requested.
SpecLoaded == pc = "serving" /\ resp.route \in {"file", "notfound"} /\ Len(resp.request) = 2

\* C30: for every record of the list, the spec URL rendered by
\* GET /service/{service} for the record's Service is answered by the
\* raw-file handler with the file of a record of that Service, never with a
\* 404, also when records of one Service differ in format.
C30_SpecURLResolves ==
  SpecLoaded =>
    /\ resp.route = "file"
    /\ resp.status = 200
    /\ \E i \in DOMAIN held :
         /\ held[i].Service = resp.request[1]
         /\ resp.file = <<held[i].Path>>

====
